---- MODULE Spec2Model ----
(***************************************************************************)
(* Expression-graph nodes of CasADi: the nonzero-selection (gather) node   *)
(* GetNonzeros (symbolic/mx/getnonzeros.cpp) and the reduction norm nodes  *)
(* Norm2, Norm22, Norm1, NormInf (casadi/mx/norm.cpp).                     *)
(*                                                                         *)
(* Indices are 0-based as in the C++ code; TLA+ sequences are 1-based, so  *)
(* the element the code calls v[k] is v[k+1] here.                         *)
(***************************************************************************)
EXTENDS Integers, Sequences, FiniteSets, TLC

VARIABLES
  pc,        \* position of the driver: which call has been made
  thrown,    \* exception raised by the last call ("none" when it returned)
  kind,      \* class of the node: GetNonzeros, Norm2, Norm22, Norm1 or NormInf
  sp,        \* GetNonzeros: output sparsity pattern (sparsity())
  dsp,       \* GetNonzeros: sparsity pattern of the dependency (dep().sparsity())
  nz_,       \* GetNonzeros: the index mapping, one entry per output nonzero
  idata,     \* input[0]->data(): the dependency's nonzeros
  odata,     \* output[0]->data(): the node's nonzeros
  fwdSeed,   \* forward seeds, one vector per direction
  fwdSens,   \* forward sensitivities, one vector per direction
  adjSeed,   \* adjoint seeds, one vector per direction
  adjSens,   \* adjoint sensitivities (accumulators), one vector per direction
  ibits,     \* propagateSparsity: bvec_t words of the dependency
  obits,     \* propagateSparsity: bvec_t words of the output
  ex,        \* simplifyMe: the expression handle ("node" or "dep")
  nzArg,     \* getGetNonzeros: the mapping nz passed by the caller
  nzNew,     \* getGetNonzeros: the mapping of the node that was built
  ad,        \* adFwd: the seed matrix jx[0] and the node that was returned
  gen,       \* generateOperation: the run of the emitted loop
  drv,       \* the reverse pass of several parents over one accumulator
  mx         \* evaluateMX: the symbolic arguments and results

vars == <<pc, thrown, kind, sp, dsp, nz_, idata, odata, fwdSeed, fwdSens,
          adjSeed, adjSens, ibits, obits, ex, nzArg, nzNew, ad, gen, drv, mx>>

\* no derivative node, emitted loop, reverse pass or symbolic evaluation
NoAux == ad = "none" /\ gen = "none" /\ drv = "none" /\ mx = "none"

(***************************************************************************)
(* Bounds of the model.                                                    *)
(***************************************************************************)
\* largest number of nonzeros of a dependency
MaxNnz == 2
\* largest number of nonzeros of a gather's output (length of nz_)
MaxOut == 2
\* largest number of directions (forward plus adjoint) of one evaluation
MaxDir == 2

(***************************************************************************)
(* Small helpers on sequences.                                             *)
(***************************************************************************)
SeqsUpTo(S, n) == UNION {[1..m -> S] : m \in 0..n}

SeqsOf(S, n) == [1..n -> S]

\* the sum of f[i] over the finite index set I
RECURSIVE SumOver(_, _)
SumOver(I, f) ==
  IF I = {} THEN 0
  ELSE LET i == CHOOSE j \in I : TRUE IN f[i] + SumOver(I \ {i}, f)

(***************************************************************************)
(* Sparsity patterns (CRSSparsity), as the set of structurally nonzero     *)
(* (row, column) positions of a size1 x size2 matrix.                      *)
(***************************************************************************)
Pattern(r, c, e) == [size1 |-> r, size2 |-> c, elems |-> e]

\* CRSSparsity(1, n, true): the dense row vector with n nonzeros
DenseRow(n) == Pattern(1, n, {<<0, j>> : j \in 0..(n - 1)})

\* CRSSparsity::size(): the number of structural nonzeros
Nnz(p) == Cardinality(p.elems)

(***************************************************************************)
(* GetNonzeros: numeric evaluation (evaluateD/evaluateSX -> evaluateGen).  *)
(***************************************************************************)
\* values of the numeric buffers of the gather
Vals == {0, 1}

\* what an unchecked read past the end of a vector may return
Garbage == {0, 1}

\* the mapping stays inside a dependency of n nonzeros
InRange(nz, n) == \A i \in 1..Len(nz) : nz[i] < n

\* idata[*k]: std::vector::operator[] is unchecked; past the end the value
\* read is whatever lies there (g)
ReadAt(data, k, g) == IF k < Len(data) THEN data[k + 1] ELSE g

\* the gather loop with the test *k>0 in place of *k>=0
RECURSIVE GatherLoopStrict(_, _, _, _, _)
GatherLoopStrict(nz, data, out, k, g) ==
  IF k = Len(nz) THEN out
  ELSE GatherLoopStrict(nz, data,
         [out EXCEPT ![k + 1] = IF nz[k + 1] > 0 THEN ReadAt(data, nz[k + 1], g) ELSE 0],
         k + 1, g)

\* the loop of lines 58-60 (and 66-68), k entries of nz already consumed:
\*   *odata_it++ = *k>=0 ? idata[*k] : 0;
RECURSIVE GatherLoop(_, _, _, _, _)
GatherLoop(nz, data, out, k, g) ==
  IF k = Len(nz) THEN out
  ELSE GatherLoop(nz, data,
         [out EXCEPT ![k + 1] = IF nz[k + 1] >= 0 THEN ReadAt(data, nz[k + 1], g) ELSE 0],
         k + 1, g)

\* the forward loop that reads the seed of direction 0 in every direction
RECURSIVE ForwardLoopFirstSeed(_, _, _, _, _)
ForwardLoopFirstSeed(nz, fseed, fsens, d, g) ==
  IF d = Len(fsens) THEN fsens
  ELSE ForwardLoopFirstSeed(nz, fseed,
         [fsens EXCEPT ![d + 1] = GatherLoop(nz, fseed[1], fsens[d + 1], 0, g)],
         d + 1, g)

\* the forward loop of lines 63-69 over the directions d..nfwd-1
RECURSIVE ForwardLoop(_, _, _, _, _)
ForwardLoop(nz, fseed, fsens, d, g) ==
  IF d = Len(fsens) THEN fsens
  ELSE ForwardLoop(nz, fseed,
         [fsens EXCEPT ![d + 1] = GatherLoop(nz, fseed[d + 1], fsens[d + 1], 0, g)],
         d + 1, g)

\* the adjoint loop with asens[*k] = *aseed_it in place of +=
RECURSIVE AdjointLoopAssign(_, _, _, _)
AdjointLoopAssign(nz, aseed, asens, k) ==
  IF k = Len(nz) THEN <<aseed, asens>>
  ELSE LET j == nz[k + 1]
           sens1 == IF j >= 0 /\ j < Len(asens)
                    THEN [asens EXCEPT ![j + 1] = aseed[k + 1]]
                    ELSE asens
       IN AdjointLoopAssign(nz, [aseed EXCEPT ![k + 1] = 0], sens1, k + 1)

\* the adjoint loop with asens[*k] -= *aseed_it in place of +=
RECURSIVE AdjointLoopSubtract(_, _, _, _)
AdjointLoopSubtract(nz, aseed, asens, k) ==
  IF k = Len(nz) THEN <<aseed, asens>>
  ELSE LET j == nz[k + 1]
           sens1 == IF j >= 0 /\ j < Len(asens)
                    THEN [asens EXCEPT ![j + 1] = @ - aseed[k + 1]]
                    ELSE asens
       IN AdjointLoopSubtract(nz, [aseed EXCEPT ![k + 1] = 0], sens1, k + 1)

\* the loop of lines 75-78 for one direction, k entries of nz already
\* consumed; yields <<aseed, asens>>:
\*   if(*k>=0) asens[*k] += *aseed_it;  *aseed_it++ = 0;
\* a write past the end of asens lands outside the buffer
RECURSIVE AdjointLoop(_, _, _, _)
AdjointLoop(nz, aseed, asens, k) ==
  IF k = Len(nz) THEN <<aseed, asens>>
  ELSE LET j == nz[k + 1]
           sens1 == IF j >= 0 /\ j < Len(asens)
                    THEN [asens EXCEPT ![j + 1] = @ + aseed[k + 1]]
                    ELSE asens
       IN AdjointLoop(nz, [aseed EXCEPT ![k + 1] = 0], sens1, k + 1)

\* the adjoint loop of lines 72-79 over the directions d..nadj-1; yields
\* <<adjSeed, adjSens>>
RECURSIVE AdjointDirs(_, _, _, _)
AdjointDirs(nz, aseeds, asenss, d) ==
  IF d = Len(aseeds) THEN <<aseeds, asenss>>
  ELSE LET r == AdjointLoop(nz, aseeds[d + 1], asenss[d + 1], 0)
       IN AdjointDirs(nz, [aseeds EXCEPT ![d + 1] = r[1]],
                          [asenss EXCEPT ![d + 1] = r[2]], d + 1)

\* GetNonzeros::evaluateGen: value, forward and adjoint passes in one call.
\* With an index past the end of the dependency the behaviour is undefined:
\* the reads return garbage and the call returns, or the process dies.
EvaluateGen ==
  /\ pc = "built"
  /\ \/ \E g \in (IF InRange(nz_, Len(idata)) THEN {0} ELSE Garbage) :
          /\ odata' = GatherLoop(nz_, idata, odata, 0, g)
          /\ fwdSens' = ForwardLoop(nz_, fwdSeed, fwdSens, 0, g)
          /\ LET r == AdjointDirs(nz_, adjSeed, adjSens, 0)
             IN adjSeed' = r[1] /\ adjSens' = r[2]
          /\ pc' = "evaluated"
     \/ /\ ~InRange(nz_, Len(idata))
        /\ pc' = "crashed"
        /\ UNCHANGED <<odata, fwdSens, adjSeed, adjSens>>
  /\ UNCHANGED <<thrown, kind, sp, dsp, nz_, idata, fwdSeed, ibits, obits, ex, nzArg, nzNew,
                 ad, gen, drv, mx>>

\* GetNonzeros::GetNonzeros(sp, y, nz): the node keeps the output pattern
\* p, the dependency (of pattern dp) and nz as given; nothing is checked.
Node(p, dp, nz) ==
  /\ pc = "built"
  /\ thrown = "none"
  /\ kind = "GetNonzeros"
  /\ sp = p
  /\ dsp = dp
  /\ nz_ = nz
  /\ ex = "node"
  /\ nzArg = <<>>
  /\ nzNew = <<>>
  /\ NoAux

\* a node with Len(nz) output nonzeros on a dependency of n nonzeros, both
\* row vectors
Constructed(n, nz) == Node(DenseRow(Len(nz)), DenseRow(n), nz)

NoBits == ibits = <<>> /\ obits = <<>>

\* the vector <<1, 2, ..., n>>
Ramp(n) == [i \in 1..n |-> i]

\* the vector of n zeros
Zeros(n) == [i \in 1..n |-> 0]

\* buffers of an evaluation with nfwd forward and nadj adjoint directions,
\* sized by the node: the output-sized ones by Len(nz), the others by n.
\* In evaluations of at most one direction the dependency's data is varied
\* and an accumulator starts as zeros or as the ramp; with more directions
\* the data and the accumulators start as the ramp.  A forward sensitivity
\* buffer holds the ramp, left over from an earlier call.
Buffers(n, nz, nfwd, nadj) ==
  /\ idata \in (IF nfwd + nadj <= 1 THEN SeqsOf(Vals, n) ELSE {Ramp(n)})
  /\ odata \in SeqsOf({0}, Len(nz))
  /\ fwdSeed \in SeqsOf(SeqsOf(Vals, n), nfwd)
  /\ fwdSens \in SeqsOf({Ramp(Len(nz))}, nfwd)
  /\ adjSeed \in SeqsOf(SeqsOf(Vals, Len(nz)), nadj)
  /\ adjSens \in SeqsOf((IF nfwd + nadj <= 1 THEN {Zeros(n), Ramp(n)} ELSE {Ramp(n)}), nadj)

\* the gather of testable property 9: nz=[1,-1,0] over x=[10,20] with
\* adjoint seed [5,7,9] on a zero accumulator
Scenario9 ==
  /\ Constructed(2, <<1, -1, 0>>)
  /\ idata = <<10, 20>>
  /\ odata = <<0, 0, 0>>
  /\ fwdSeed = <<>> /\ fwdSens = <<>>
  /\ adjSeed = << <<5, 7, 9>> >>
  /\ adjSens = << <<0, 0>> >>
  /\ NoBits

\* a node whose mapping is valid for its dependency: every entry is an
\* index of a dependency nonzero or the absent marker -1
InitEval ==
  \/ \E n \in 0..MaxNnz : \E nz \in SeqsUpTo(-1..(n - 1), MaxOut) :
       \E nfwd \in 0..MaxDir, nadj \in 0..MaxDir :
          /\ nfwd + nadj <= MaxDir
          /\ Constructed(n, nz)
          /\ Buffers(n, nz, nfwd, nadj)
          /\ NoBits
  \/ Scenario9

NextEval == EvaluateGen

SpecEval == InitEval /\ [][NextEval]_vars

(***************************************************************************)
(* Claims on the numeric evaluation of the gather (SpecEval).              *)
(***************************************************************************)
\* the call of evaluateGen returned
Evaluated == pc = "built" /\ pc' = "evaluated"

\* C1: numeric evaluation of a gather writes, for every output position i,
\* out[i] = dep.data[nz[i]] when nz[i] >= 0 and out[i] = 0 when nz[i] is
\* the absent marker, and leaves the dependency data unchanged.
C1_GatherValue ==
  [][Evaluated =>
       /\ Len(odata') = Len(nz_)
       /\ \A i \in 1..Len(nz_) :
            odata'[i] = IF nz_[i] >= 0 THEN idata[nz_[i] + 1] ELSE 0
       /\ idata' = idata]_vars

\* the gather nz=[1,-1,0] over x=[10,20] has produced [20,0,10]
C1_Witness ==
  /\ pc = "evaluated"
  /\ nz_ = <<1, -1, 0>>
  /\ idata = <<10, 20>>
  /\ odata = <<20, 0, 10>>

\* C2: after the adjoint pass, for every adjoint direction d, every
\* accumulator entry j equals its previous value plus the sum of the seeds
\* at all output positions i with nz[i] = j (duplicates accumulate, seeds at
\* absent positions are discarded), and every entry of the seed buffer is
\* zero; nz=[1,-1,0] with seed [5,7,9] on a zero accumulator gives [9,5].
C2_AdjointAccumulates ==
  [][Evaluated =>
       /\ Len(adjSens') = Len(adjSens) /\ Len(adjSeed') = Len(adjSeed)
       /\ \A d \in 1..Len(adjSeed) :
            /\ \A j \in 1..Len(adjSens[d]) :
                 adjSens'[d][j] = adjSens[d][j]
                   + SumOver({i \in 1..Len(nz_) : nz_[i] = j - 1}, adjSeed[d])
            /\ \A i \in 1..Len(nz_) : adjSeed'[d][i] = 0
       /\ (nz_ = <<1, -1, 0>> /\ adjSeed = << <<5, 7, 9>> >> /\ adjSens = << <<0, 0>> >>)
            => adjSens' = << <<9, 5>> >>]_vars

\* the adjoint pass of the scenario has run: [9,5] accumulated, seeds cleared
C2_Witness ==
  /\ pc = "evaluated"
  /\ nz_ = <<1, -1, 0>>
  /\ adjSens = << <<9, 5>> >>
  /\ adjSeed = << <<0, 0, 0>> >>

(***************************************************************************)
(* Nodes whose mapping may point past the dependency's nonzeros: the       *)
(* constructor (lines 35-38) accepts any nz.                               *)
(***************************************************************************)
InitAny ==
  \E n \in 0..MaxNnz : \E nz \in SeqsUpTo(-1..n, MaxOut) :
    \E nfwd \in 0..1, nadj \in 0..1 :
       /\ nfwd + nadj <= 1
       /\ Constructed(n, nz)
       /\ Buffers(n, nz, nfwd, nadj)
       /\ NoBits

SpecAny == InitAny /\ [][NextEval]_vars

\* C9: a gather whose mapping references a nonzero index greater than or
\* equal to the dependency's nonzero count raises a fatal IndexOutOfRange
\* error, at construction or at evaluation, instead of reading or
\* accumulating outside the dependency's data.
C9_OutOfRangeRaises ==
  (pc # "built" /\ ~InRange(nz_, Len(idata))) => thrown = "IndexOutOfRange"

(***************************************************************************)
(* GetNonzeros::propagateSparsity: the structural bit-mask pass.  A bvec_t *)
(* word is modelled as the set of its set bits: | is union, 0 is {}.       *)
(***************************************************************************)
\* the words the buffers may hold on entry
Words == {{}, {0}, {1}}

\* the loop of lines 89-91, k entries of nz already consumed:
\*   *outputd++ = *k>=0 ? inputd[*k] : 0;
RECURSIVE BitsFwdLoop(_, _, _, _)
BitsFwdLoop(nz, inw, outw, k) ==
  IF k = Len(nz) THEN outw
  ELSE BitsFwdLoop(nz, inw,
         [outw EXCEPT ![k + 1] = IF nz[k + 1] >= 0 THEN inw[nz[k + 1] + 1] ELSE {}],
         k + 1)

\* the reverse loop that drops the clearing of the output word
RECURSIVE BitsRevLoopKeep(_, _, _, _)
BitsRevLoopKeep(nz, inw, outw, k) ==
  IF k = Len(nz) THEN <<inw, outw>>
  ELSE LET j == nz[k + 1]
           in1 == IF j >= 0 THEN [inw EXCEPT ![j + 1] = @ \cup outw[k + 1]] ELSE inw
       IN BitsRevLoopKeep(nz, in1, outw, k + 1)

\* the loop of lines 93-96, k entries of nz already consumed; yields
\* <<inputd, outputd>>:
\*   if(*k>=0) inputd[*k] |= *outputd;  *outputd++ = 0;
RECURSIVE BitsRevLoop(_, _, _, _)
BitsRevLoop(nz, inw, outw, k) ==
  IF k = Len(nz) THEN <<inw, outw>>
  ELSE LET j == nz[k + 1]
           in1 == IF j >= 0 THEN [inw EXCEPT ![j + 1] = @ \cup outw[k + 1]] ELSE inw
       IN BitsRevLoop(nz, in1, [outw EXCEPT ![k + 1] = {}], k + 1)

\* GetNonzeros::propagateSparsity(input, output, fwd)
PropagateSparsity ==
  /\ pc = "built"
  /\ \E fwd \in BOOLEAN :
       IF fwd
       THEN /\ obits' = BitsFwdLoop(nz_, ibits, obits, 0)
            /\ ibits' = ibits
            /\ pc' = "spfwd"
       ELSE /\ LET r == BitsRevLoop(nz_, ibits, obits, 0)
               IN ibits' = r[1] /\ obits' = r[2]
            /\ pc' = "sprev"
  /\ UNCHANGED <<thrown, kind, sp, dsp, nz_, idata, odata, fwdSeed, fwdSens,
                 adjSeed, adjSens, ex, nzArg, nzNew,
                 ad, gen, drv, mx>>

\* a valid node with the word buffers of a structural pass
InitBits ==
  \E n \in 0..MaxNnz : \E nz \in SeqsUpTo(-1..(n - 1), MaxOut) :
     /\ Constructed(n, nz)
     /\ idata = Zeros(n) /\ odata = Zeros(Len(nz))
     /\ fwdSeed = <<>> /\ fwdSens = <<>> /\ adjSeed = <<>> /\ adjSens = <<>>
     /\ ibits \in SeqsOf(Words, n)
     /\ obits \in SeqsOf(Words, Len(nz))

NextBits == PropagateSparsity

SpecBits == InitBits /\ [][NextBits]_vars

\* the union of the words f[i], i in I
UnionOver(I, f) == UNION {f[i] : i \in I}

\* C10: the structural pass uses the mapping nz of the node: forward, every
\* output word i becomes the input word at nz[i] (0 when nz[i] is absent)
\* and the input words are unchanged; reverse, every input word j becomes
\* its previous value OR-ed with the output words of all i with nz[i] = j,
\* and afterwards every output word is 0.
C10_SparsityPass ==
  [][/\ (pc = "built" /\ pc' = "spfwd") =>
          /\ Len(obits') = Len(nz_)
          /\ \A i \in 1..Len(nz_) :
               obits'[i] = IF nz_[i] >= 0 THEN ibits[nz_[i] + 1] ELSE {}
          /\ ibits' = ibits
     /\ (pc = "built" /\ pc' = "sprev") =>
          /\ Len(ibits') = Len(ibits) /\ Len(obits') = Len(nz_)
          /\ \A j \in 1..Len(ibits) :
               ibits'[j] = ibits[j] \cup
                 UnionOver({i \in 1..Len(nz_) : nz_[i] = j - 1}, obits)
          /\ \A i \in 1..Len(nz_) : obits'[i] = {}]_vars

\* a reverse pass over a duplicated index has merged two different output
\* words into one input word
C10_Witness ==
  /\ pc = "sprev"
  /\ nz_ = <<0, 0>>
  /\ ibits = <<{0, 1}>>
  /\ obits = <<{}, {}>>

(***************************************************************************)
(* GetNonzeros::isIdentity and GetNonzeros::simplifyMe.                    *)
(***************************************************************************)
\* the loop of lines 274-276 from index k on: false at the first nz_[k] != k
RECURSIVE IncreasingFrom(_, _)
IncreasingFrom(nz, k) ==
  IF k = Len(nz) THEN TRUE
  ELSE IF nz[k + 1] # k THEN FALSE
  ELSE IncreasingFrom(nz, k + 1)

\* isIdentity without the comparison of the patterns
IsIdentityNoSparsity(p, dp, nz) == IncreasingFrom(nz, 0)

\* GetNonzeros::isIdentity
IsIdentity(p, dp, nz) ==
  IF ~(p = dp) THEN FALSE
  ELSE IncreasingFrom(nz, 0)

\* GetNonzeros::simplifyMe(ex)
SimplifyMe ==
  /\ pc = "built"
  /\ ex' = IF IsIdentity(sp, dsp, nz_) THEN "dep" ELSE ex
  /\ pc' = "simplified"
  /\ UNCHANGED <<thrown, kind, sp, dsp, nz_, idata, odata, fwdSeed, fwdSens,
                 adjSeed, adjSens, ibits, obits, nzArg, nzNew,
                 ad, gen, drv, mx>>

\* shapes of the matrices
Shapes == {<<1, 2>>, <<2, 1>>, <<2, 2>>}

\* the patterns of these shapes with at most n nonzeros
PatternsUpTo(n) ==
  UNION {{Pattern(sh[1], sh[2], e) :
            e \in {x \in SUBSET ((0..(sh[1] - 1)) \X (0..(sh[2] - 1))) : Cardinality(x) <= n}} :
         sh \in Shapes}

\* a valid node between two patterns, with one entry of nz per output
\* nonzero, and the buffers of an evaluation without directions
InitIdentity ==
  \E p \in PatternsUpTo(MaxOut), dp \in PatternsUpTo(MaxNnz) :
    \E nz \in SeqsOf(-1..(Nnz(dp) - 1), Nnz(p)) :
       /\ Node(p, dp, nz)
       /\ Buffers(Nnz(dp), nz, 0, 0)
       /\ NoBits

NextIdentity == SimplifyMe \/ EvaluateGen

SpecIdentity == InitIdentity /\ [][NextIdentity]_vars

\* the output pattern equals the dependency's and nz[i] = i for every i
IdentityMapping ==
  sp = dsp /\ \A i \in 1..Len(nz_) : nz_[i] = i - 1

\* C8: isIdentity() is true exactly when the output pattern equals the
\* dependency's pattern and nz[i] = i for every i; when it is true the
\* gather's value equals the dependency data, and simplifyMe replaces the
\* expression by the dependency and leaves it unchanged otherwise.
C8_Identity ==
  /\ IsIdentity(sp, dsp, nz_) <=> IdentityMapping
  /\ pc = "simplified" => ex = (IF IdentityMapping THEN "dep" ELSE "node")
  /\ (pc = "evaluated" /\ IsIdentity(sp, dsp, nz_)) => odata = idata

\* simplifyMe has elided an identity gather of two nonzeros
C8_Witness ==
  /\ pc = "simplified"
  /\ ex = "dep"
  /\ nz_ = <<0, 1>>

(***************************************************************************)
(* GetNonzeros::getGetNonzeros: a gather of this gather.                   *)
(***************************************************************************)
\* what the unchecked read nz_[-1], before the start of the vector, may
\* return: any int; these are the ones that matter to a dependency of n
\* nonzeros (absent, every valid index, one past the end)
GarbageIndex(n) == -1..n

\* nz_[*i] of line 302: std::vector::operator[] is unchecked, and *i is
\* never compared with 0
ReadNz(nz, i, g) == IF i >= 0 /\ i < Len(nz) THEN nz[i + 1] ELSE g

\* the loop of lines 301-303, k entries of nz_new already rewritten:
\*   *i = nz_[*i];
RECURSIVE ComposeLoop(_, _, _, _)
ComposeLoop(nz, nznew, k, g) ==
  IF k = Len(nznew) THEN nznew
  ELSE ComposeLoop(nz, [nznew EXCEPT ![k + 1] = ReadNz(nz, nznew[k + 1], g)], k + 1, g)

\* every entry of the caller's mapping is an index of nz_
Readable(nzarg, nz) == \A i \in 1..Len(nzarg) : nzarg[i] >= 0 /\ nzarg[i] < Len(nz)

\* GetNonzeros::getGetNonzeros(sp, nz): nz_new is a copy of nz rewritten in
\* place, and the gather is built on the dependency.  With an entry of nz
\* that is no index of nz_ the behaviour is undefined: the read returns
\* garbage, or the process dies.
GetGetNonzeros ==
  /\ pc = "built"
  /\ \/ \E g \in (IF Readable(nzArg, nz_) THEN {-1} ELSE GarbageIndex(Len(idata))) :
          /\ nzNew' = ComposeLoop(nz_, nzArg, 0, g)
          /\ pc' = "composed"
     \/ /\ ~Readable(nzArg, nz_)
        /\ pc' = "crashed"
        /\ nzNew' = nzNew
  /\ UNCHANGED <<thrown, kind, sp, dsp, nz_, idata, odata, fwdSeed, fwdSens,
                 adjSeed, adjSens, ibits, obits, ex, nzArg,
                 ad, gen, drv, mx>>

\* a valid node and a caller's mapping over the node's output nonzeros,
\* whose entries are indices of them or the absent marker
InitCompose ==
  \E n \in 0..MaxNnz : \E nz \in SeqsUpTo(-1..(n - 1), MaxOut) :
    \E nzarg \in SeqsUpTo(-1..(Len(nz) - 1), MaxOut) :
       /\ pc = "built" /\ thrown = "none" /\ ex = "node"
       /\ kind = "GetNonzeros"
       /\ sp = DenseRow(Len(nz)) /\ dsp = DenseRow(n)
       /\ nz_ = nz
       /\ nzArg = nzarg
       /\ nzNew = <<>>
       /\ NoAux
       /\ Buffers(n, nz, 0, 0)
       /\ NoBits

NextCompose == GetGetNonzeros

SpecCompose == InitCompose /\ [][NextCompose]_vars

\* C3: the gather built by getGetNonzeros(sp, nz) on a node with mapping
\* nz_ has the mapping new_nz[i] = nz_[nz[i]], an absent entry of nz giving
\* an absent entry, and its value equals the two gathers applied in
\* sequence to the dependency data.
C3_ComposeFlattens ==
  pc = "composed" =>
    /\ Len(nzNew) = Len(nzArg)
    /\ \A i \in 1..Len(nzArg) :
         nzNew[i] = IF nzArg[i] >= 0 THEN nz_[nzArg[i] + 1] ELSE -1
    /\ GatherLoop(nzNew, idata, Zeros(Len(nzNew)), 0, 0)
         = GatherLoop(nzArg, GatherLoop(nz_, idata, odata, 0, 0), Zeros(Len(nzArg)), 0, 0)

(***************************************************************************)
(* The type double of norm.cpp: exact rationals n/d (d > 0, lowest terms), *)
(* the two infinities and not-a-number, with the IEEE 754 rules for them.  *)
(* Rounding is not modelled; signed zeros are not distinguished.           *)
(***************************************************************************)
RECURSIVE Gcd(_, _)
Gcd(a, b) == IF b = 0 THEN a ELSE Gcd(b, a % b)

AbsInt(n) == IF n < 0 THEN -n ELSE n

SignInt(n) == IF n < 0 THEN -1 ELSE IF n > 0 THEN 1 ELSE 0

\* the double n/d, d # 0
Rat(n, d) ==
  LET g == Gcd(AbsInt(n), AbsInt(d))
      sg == IF d < 0 THEN -1 ELSE 1
  IN [k |-> "fin", n |-> (sg * n) \div g, d |-> AbsInt(d) \div g]

\* the double of an int
Fin(n) == [k |-> "fin", n |-> n, d |-> 1]

\* std::numeric_limits<double>::quiet_NaN()
NaN == [k |-> "nan", n |-> 0, d |-> 1]

\* std::numeric_limits<double>::infinity(), with sign sg
Inf(sg) == [k |-> "inf", n |-> sg, d |-> 1]

IsNaN(a) == a.k = "nan"

\* a == 0
DIsZero(a) == a.k = "fin" /\ a.n = 0

\* a + b
DAdd(a, b) ==
  IF IsNaN(a) \/ IsNaN(b) THEN NaN
  ELSE IF a.k = "inf" THEN (IF b.k = "inf" /\ b.n # a.n THEN NaN ELSE a)
  ELSE IF b.k = "inf" THEN b
  ELSE Rat(a.n * b.d + b.n * a.d, a.d * b.d)

\* -a
DNeg(a) == IF IsNaN(a) THEN NaN ELSE [a EXCEPT !.n = -a.n]

\* a - b
DSub(a, b) == DAdd(a, DNeg(b))

\* a * b
DMul(a, b) ==
  IF IsNaN(a) \/ IsNaN(b) THEN NaN
  ELSE IF a.k = "inf" \/ b.k = "inf"
       THEN (IF DIsZero(a) \/ DIsZero(b) THEN NaN ELSE Inf(SignInt(a.n) * SignInt(b.n)))
  ELSE Rat(a.n * b.n, a.d * b.d)

\* a / b
DDiv(a, b) ==
  IF IsNaN(a) \/ IsNaN(b) THEN NaN
  ELSE IF a.k = "inf"
       THEN (IF b.k = "inf" THEN NaN
             ELSE Inf(a.n * (IF b.n < 0 THEN -1 ELSE 1)))
  ELSE IF b.k = "inf" THEN Fin(0)
  ELSE IF b.n = 0 THEN (IF a.n = 0 THEN NaN ELSE Inf(SignInt(a.n)))
  ELSE Rat(a.n * b.d, a.d * b.n)

\* std::abs(a)
DAbs(a) == IF IsNaN(a) THEN NaN ELSE [a EXCEPT !.n = AbsInt(a.n)]

\* a > b: false when either is not-a-number
DGt(a, b) ==
  IF IsNaN(a) \/ IsNaN(b) THEN FALSE
  ELSE IF a.k = "inf" THEN a.n = 1 /\ ~(b.k = "inf" /\ b.n = 1)
  ELSE IF b.k = "inf" THEN b.n = -1
  ELSE a.n * b.d > b.n * a.d

\* a < b
DLt(a, b) == DGt(b, a)

\* n is the square of an int
IsSquare(n) == n >= 0 /\ \E r \in 0..n : r * r = n

\* the int whose square is n
IntSqrt(n) == CHOOSE r \in 0..n : r * r = n

\* the doubles whose square root is a double of the model
HasSqrt(a) == a.k # "fin" \/ a.n < 0 \/ (IsSquare(a.n) /\ IsSquare(a.d))

\* sqrt(a), for HasSqrt(a)
DSqrt(a) ==
  IF IsNaN(a) THEN NaN
  ELSE IF a.k = "inf" THEN (IF a.n = 1 THEN a ELSE NaN)
  ELSE IF a.n < 0 THEN NaN
  ELSE Rat(IntSqrt(a.n), IntSqrt(a.d))

\* the vector of doubles of a vector of ints
FinSeq(v) == [i \in 1..Len(v) |-> Fin(v[i])]

(***************************************************************************)
(* The norm nodes (norm.cpp).  inputd is idata, outputd is odata (one      *)
(* entry); fwdSeed[0][d] is fwdSeed[d+1], fwdSens[d] is fwdSens[d+1] (one  *)
(* entry), adjSeed[d] is adjSeed[d+1] (one entry), adjSens[0][d] is        *)
(* adjSens[d+1]; nfwd and nadj are the numbers of these buffers.           *)
(***************************************************************************)
\* the loop of lines 61-63 (107-109) from k on: temp += inputd[k]*inputd[k]
RECURSIVE SumSquares(_, _, _)
SumSquares(x, k, temp) ==
  IF k = Len(x) THEN temp
  ELSE SumSquares(x, k + 1, DAdd(temp, DMul(x[k + 1], x[k + 1])))

\* the loop of lines 68-70 with inputd[k] in place of inputd[k]/outputd[0]
RECURSIVE Norm2ForwardSumNoDiv(_, _, _, _, _)
Norm2ForwardSumNoDiv(x, out, seed, k, acc) ==
  IF k = Len(x) THEN acc
  ELSE Norm2ForwardSumNoDiv(x, out, seed, k + 1,
         DAdd(acc, DMul(x[k + 1], seed[k + 1])))

\* the loop of lines 68-70 from k on:
\*   fwdSens[d] += inputd[k]/outputd[0] * fwdSeed[0][d][k]
RECURSIVE Norm2ForwardSum(_, _, _, _, _)
Norm2ForwardSum(x, out, seed, k, acc) ==
  IF k = Len(x) THEN acc
  ELSE Norm2ForwardSum(x, out, seed, k + 1,
         DAdd(acc, DMul(DDiv(x[k + 1], out), seed[k + 1])))

\* the loop of lines 66-71 from direction d on
RECURSIVE Norm2Forward(_, _, _, _, _)
Norm2Forward(x, out, fseed, fsens, d) ==
  IF d = Len(fsens) THEN fsens
  ELSE Norm2Forward(x, out, fseed,
         [fsens EXCEPT ![d + 1] = [@ EXCEPT ![1] = Norm2ForwardSum(x, out, fseed[d + 1], 0, Fin(0))]],
         d + 1)

\* the loop of lines 76-78 from k on:
\*   adjSens[0][d][k] += inputd[k]/outputd[0] * adjSeed[d][0]
RECURSIVE Norm2AdjointAdd(_, _, _, _, _)
Norm2AdjointAdd(x, out, s, sens, k) ==
  IF k = Len(x) THEN sens
  ELSE Norm2AdjointAdd(x, out, s,
         [sens EXCEPT ![k + 1] = DAdd(@, DMul(DDiv(x[k + 1], out), s))], k + 1)

\* the loop of lines 74-79 from direction d on
RECURSIVE Norm2Adjoint(_, _, _, _, _)
Norm2Adjoint(x, out, aseed, asens, d) ==
  IF d = Len(aseed) THEN asens
  ELSE IF DIsZero(aseed[d + 1][1]) THEN Norm2Adjoint(x, out, aseed, asens, d + 1)
  ELSE Norm2Adjoint(x, out, aseed,
         [asens EXCEPT ![d + 1] = Norm2AdjointAdd(x, out, aseed[d + 1][1], @, 0)], d + 1)

\* Norm2::evaluate
Norm2Evaluate ==
  /\ pc = "built" /\ kind = "Norm2"
  /\ LET out == DSqrt(SumSquares(idata, 0, Fin(0)))
     IN /\ odata' = [odata EXCEPT ![1] = out]
        /\ fwdSens' = Norm2Forward(idata, out, fwdSeed, fwdSens, 0)
        /\ adjSens' = Norm2Adjoint(idata, out, adjSeed, adjSens, 0)
  /\ pc' = "evaluated"
  /\ UNCHANGED <<thrown, kind, sp, dsp, nz_, idata, fwdSeed, adjSeed,
                 ibits, obits, ex, nzArg, nzNew,
                 ad, gen, drv, mx>>

\* the loop of lines 114-116 from k on:
\*   fwdSens[d] += 2*inputd[k] * fwdSeed[0][d][k]
RECURSIVE Norm22ForwardSum(_, _, _, _)
Norm22ForwardSum(x, seed, k, acc) ==
  IF k = Len(x) THEN acc
  ELSE Norm22ForwardSum(x, seed, k + 1,
         DAdd(acc, DMul(DMul(Fin(2), x[k + 1]), seed[k + 1])))

\* the loop of lines 112-117 from direction d on
RECURSIVE Norm22Forward(_, _, _, _)
Norm22Forward(x, fseed, fsens, d) ==
  IF d = Len(fsens) THEN fsens
  ELSE Norm22Forward(x, fseed,
         [fsens EXCEPT ![d + 1] = [@ EXCEPT ![1] = Norm22ForwardSum(x, fseed[d + 1], 0, Fin(0))]],
         d + 1)

\* the loop of lines 122-124 without the factor 2
RECURSIVE Norm22AdjointAddNoFactor(_, _, _, _)
Norm22AdjointAddNoFactor(x, s, sens, k) ==
  IF k = Len(x) THEN sens
  ELSE Norm22AdjointAddNoFactor(x, s,
         [sens EXCEPT ![k + 1] = DAdd(@, DMul(x[k + 1], s))], k + 1)

\* the loop of lines 122-124 from k on:
\*   adjSens[0][d][k] += 2*inputd[k] * adjSeed[d][0]
RECURSIVE Norm22AdjointAdd(_, _, _, _)
Norm22AdjointAdd(x, s, sens, k) ==
  IF k = Len(x) THEN sens
  ELSE Norm22AdjointAdd(x, s,
         [sens EXCEPT ![k + 1] = DAdd(@, DMul(DMul(Fin(2), x[k + 1]), s))], k + 1)

\* the loop of lines 120-125 from direction d on
RECURSIVE Norm22Adjoint(_, _, _, _)
Norm22Adjoint(x, aseed, asens, d) ==
  IF d = Len(aseed) THEN asens
  ELSE IF DIsZero(aseed[d + 1][1]) THEN Norm22Adjoint(x, aseed, asens, d + 1)
  ELSE Norm22Adjoint(x, aseed,
         [asens EXCEPT ![d + 1] = Norm22AdjointAdd(x, aseed[d + 1][1], @, 0)], d + 1)

\* Norm22::evaluate
Norm22Evaluate ==
  /\ pc = "built" /\ kind = "Norm22"
  /\ odata' = [odata EXCEPT ![1] = SumSquares(idata, 0, Fin(0))]
  /\ fwdSens' = Norm22Forward(idata, fwdSeed, fwdSens, 0)
  /\ adjSens' = Norm22Adjoint(idata, adjSeed, adjSens, 0)
  /\ pc' = "evaluated"
  /\ UNCHANGED <<thrown, kind, sp, dsp, nz_, idata, fwdSeed, adjSeed,
                 ibits, obits, ex, nzArg, nzNew,
                 ad, gen, drv, mx>>

\* the loop of line 155 from k on: temp += std::abs(inputd[k])
RECURSIVE SumAbs(_, _, _)
SumAbs(x, k, temp) ==
  IF k = Len(x) THEN temp
  ELSE SumAbs(x, k + 1, DAdd(temp, DAbs(x[k + 1])))

\* the branches of lines 165-171 and 179-185 without the test of the sign
Norm1StepNoSign(acc, xk, s) ==
  IF DIsZero(xk) THEN DAdd(acc, NaN) ELSE DAdd(acc, s)

\* lines 165-171 and 179-185: acc -= s when xk < 0, acc += s when xk > 0,
\* acc += NaN otherwise
Norm1Step(acc, xk, s) ==
  IF DLt(xk, Fin(0)) THEN DSub(acc, s)
  ELSE IF DGt(xk, Fin(0)) THEN DAdd(acc, s)
  ELSE DAdd(acc, NaN)

\* the loop of lines 163-172 from k on; entries with a zero seed are skipped
RECURSIVE Norm1ForwardSum(_, _, _, _)
Norm1ForwardSum(x, seed, k, acc) ==
  IF k = Len(x) THEN acc
  ELSE IF DIsZero(seed[k + 1]) THEN Norm1ForwardSum(x, seed, k + 1, acc)
  ELSE Norm1ForwardSum(x, seed, k + 1, Norm1Step(acc, x[k + 1], seed[k + 1]))

\* the loop of lines 161-173 from direction d on
RECURSIVE Norm1Forward(_, _, _, _)
Norm1Forward(x, fseed, fsens, d) ==
  IF d = Len(fsens) THEN fsens
  ELSE Norm1Forward(x, fseed,
         [fsens EXCEPT ![d + 1] = [@ EXCEPT ![1] = Norm1ForwardSum(x, fseed[d + 1], 0, Fin(0))]],
         d + 1)

\* the loop of lines 178-186 from k on
RECURSIVE Norm1AdjointAdd(_, _, _, _)
Norm1AdjointAdd(x, s, sens, k) ==
  IF k = Len(x) THEN sens
  ELSE Norm1AdjointAdd(x, s,
         [sens EXCEPT ![k + 1] = Norm1Step(@, x[k + 1], s)], k + 1)

\* the adjoint loop of Norm1 without the test of line 177
RECURSIVE Norm1AdjointNoSkip(_, _, _, _)
Norm1AdjointNoSkip(x, aseed, asens, d) ==
  IF d = Len(aseed) THEN asens
  ELSE Norm1AdjointNoSkip(x, aseed,
         [asens EXCEPT ![d + 1] = Norm1AdjointAdd(x, aseed[d + 1][1], @, 0)], d + 1)

\* the loop of lines 176-187 from direction d on
RECURSIVE Norm1Adjoint(_, _, _, _)
Norm1Adjoint(x, aseed, asens, d) ==
  IF d = Len(aseed) THEN asens
  ELSE IF DIsZero(aseed[d + 1][1]) THEN Norm1Adjoint(x, aseed, asens, d + 1)
  ELSE Norm1Adjoint(x, aseed,
         [asens EXCEPT ![d + 1] = Norm1AdjointAdd(x, aseed[d + 1][1], @, 0)], d + 1)

\* Norm1::evaluate: the value is computed only when nfwd==0 && nadj==0
\* (lines 153-158); otherwise only the sensitivities are
Norm1Evaluate ==
  /\ pc = "built" /\ kind = "Norm1"
  /\ IF Len(fwdSens) = 0 /\ Len(adjSeed) = 0
     THEN /\ odata' = [odata EXCEPT ![1] = SumAbs(idata, 0, Fin(0))]
          /\ UNCHANGED <<fwdSens, adjSens>>
     ELSE /\ fwdSens' = Norm1Forward(idata, fwdSeed, fwdSens, 0)
          /\ adjSens' = Norm1Adjoint(idata, adjSeed, adjSens, 0)
          /\ odata' = odata
  /\ pc' = "evaluated"
  /\ UNCHANGED <<thrown, kind, sp, dsp, nz_, idata, fwdSeed, adjSeed,
                 ibits, obits, ex, nzArg, nzNew,
                 ad, gen, drv, mx>>

\* the loop of lines 208-211 from k on:
\*   a = std::abs(inputd[k]); if (a>temp) temp=a;
RECURSIVE MaxAbsLoop(_, _, _)
MaxAbsLoop(x, k, temp) ==
  IF k = Len(x) THEN temp
  ELSE LET a == DAbs(x[k + 1])
       IN MaxAbsLoop(x, k + 1, IF DGt(a, temp) THEN a ELSE temp)

\* the test of line 215 with nadj>1 in place of nadj!=0
NormInfThrowsMany(nadj) == nadj > 1

\* the test of line 215: if (nadj!=0) throw
NormInfThrows(nadj) == nadj # 0

\* NormInf::evaluate: temp starts at infinity (line 206); the exception is
\* thrown after the output has been written
NormInfEvaluate ==
  /\ pc = "built" /\ kind = "NormInf"
  /\ odata' = [odata EXCEPT ![1] = MaxAbsLoop(idata, 0, Inf(1))]
  /\ IF NormInfThrows(Len(adjSeed))
     THEN pc' = "threw" /\ thrown' = "NormInf::evaluate not implemented"
     ELSE pc' = "evaluated" /\ thrown' = thrown
  /\ UNCHANGED <<kind, sp, dsp, nz_, idata, fwdSeed, fwdSens, adjSeed, adjSens,
                 ibits, obits, ex, nzArg, nzNew,
                 ad, gen, drv, mx>>

\* Norm::evaluate (lines 36-38): the exception is the whole body
NormEvaluate ==
  /\ pc = "built" /\ kind = "Norm"
  /\ pc' = "threw"
  /\ thrown' = "Norm::evaluate not implemented"
  /\ UNCHANGED <<kind, sp, dsp, nz_, idata, odata, fwdSeed, fwdSens, adjSeed,
                 adjSens, ibits, obits, ex, nzArg, nzNew, ad, gen, drv, mx>>

\* the value of an entry that depends on the symbolic operands
Sym == [k |-> "sym", n |-> 0, d |-> 1]

\* MX(nrow, ncol, val) of line 45: the nrow-by-ncol node of entries val
ConstMX(nrow, ncol, val) ==
  [op |-> "const", size1 |-> nrow, size2 |-> ncol, val |-> val]

\* the fallback with the number of rows of jx[0] as the number of directions
NormAdFwdRows(jx) ==
  LET ndir == jx.size1
  IN ConstMX(1, ndir, NaN)

\* Norm::adFwd (lines 40-46): ndir = jx[0].size2(); MX(1,ndir,NaN)
NormAdFwd(jx) ==
  LET ndir == jx.size2
  IN ConstMX(1, ndir, NaN)

\* Norm2::adFwd (lines 84-88): trans(prod(jx.at(0),dep(0)))/ret, of the
\* shape of the transposed product
Norm2AdFwd(jx, dp) ==
  [op |-> "trans(prod(jx,dep))/ret", size1 |-> dp.size2, size2 |-> jx.size1,
   val |-> Sym]

\* Norm22::adFwd (lines 130-132): 2*trans(prod(jx.at(0),dep(0)))
Norm22AdFwd(jx, dp) ==
  [op |-> "2*trans(prod(jx,dep))", size1 |-> dp.size2, size2 |-> jx.size1,
   val |-> Sym]

\* the seed matrices jx[0] handed to adFwd
JxShapes == {[size1 |-> r, size2 |-> c] : r \in 1..MaxDir, c \in 1..MaxDir}

\* adFwd(jx) on a norm node: Norm2 and Norm22 override it (their product
\* needs jx[0].size2() == dep(0).size1()); Norm1 and NormInf inherit
\* Norm::adFwd
AdFwd ==
  /\ pc = "built"
  /\ \E jx \in JxShapes :
       /\ kind \in {"Norm2", "Norm22"} => jx.size2 = dsp.size1
       /\ ad' = [jx |-> jx,
                 ret |-> CASE kind = "Norm2" -> Norm2AdFwd(jx, dsp)
                           [] kind = "Norm22" -> Norm22AdFwd(jx, dsp)
                           [] OTHER -> NormAdFwd(jx)]
  /\ pc' = "derived"
  /\ UNCHANGED <<thrown, kind, sp, dsp, nz_, idata, odata, fwdSeed, fwdSens,
                 adjSeed, adjSens, ibits, obits, ex, nzArg, nzNew, gen, drv, mx>>

(***************************************************************************)
(* The norm nodes under evaluation.                                        *)
(***************************************************************************)
NormKinds == {"Norm", "Norm2", "Norm22", "Norm1", "NormInf"}

\* values of the dependency's nonzeros; their sums of squares include the
\* squares 0, 9, 16 and 25
XVals == {-4, 0, 3}

\* values of a scalar adjoint seed
SeedVals == {0, 2}

\* what the output buffer may hold before the call
StaleVals == {0, 7}

\* Norm::Norm(x): one dependency, output pattern the dense 1x1 scalar
NormNode(kd, n) ==
  /\ pc = "built"
  /\ thrown = "none"
  /\ kind = kd
  /\ sp = DenseRow(1)
  /\ dsp = DenseRow(n)
  /\ nz_ = <<>>
  /\ ex = "node"
  /\ nzArg = <<>>
  /\ nzNew = <<>>
  /\ NoAux

\* buffers of an evaluation of a norm of x with nfwd forward and nadj
\* adjoint directions.  In evaluations of at most one direction the forward
\* seed is varied and the accumulator starts as zeros or as the ramp; with
\* more directions they are the ramp.
NormBuffers(x, nfwd, nadj) ==
  /\ idata = FinSeq(x)
  /\ odata \in {<<Fin(v)>> : v \in StaleVals}
  /\ fwdSeed \in SeqsOf((IF nfwd + nadj <= 1
                          THEN {FinSeq(v) : v \in SeqsOf(Vals, Len(x))}
                          ELSE {FinSeq(Ramp(Len(x)))}), nfwd)
  /\ fwdSens \in SeqsOf({<<Fin(v)>> : v \in StaleVals}, nfwd)
  /\ adjSeed \in SeqsOf({<<Fin(v)>> : v \in SeedVals}, nadj)
  /\ adjSens \in SeqsOf((IF nfwd + nadj <= 1
                          THEN {FinSeq(Zeros(Len(x))), FinSeq(Ramp(Len(x)))}
                          ELSE {FinSeq(Ramp(Len(x)))}), nadj)

\* the L1 node of testable property 8: x=[-2,0,3] with one adjoint
\* direction of seed 2 on a zero accumulator
Scenario8 ==
  /\ NormNode("Norm1", 3)
  /\ idata = FinSeq(<<-2, 0, 3>>)
  /\ odata = <<Fin(0)>>
  /\ fwdSeed = <<>> /\ fwdSens = <<>>
  /\ adjSeed = << <<Fin(2)>> >>
  /\ adjSens = << FinSeq(<<0, 0, 0>>) >>
  /\ NoBits

\* the L2 node of testable property 7: x=[3,4] with one forward direction
\* of seed [1,0] and one adjoint direction of seed 1 on a zero accumulator
Scenario7 ==
  /\ NormNode("Norm2", 2)
  /\ idata = FinSeq(<<3, 4>>)
  /\ odata = <<Fin(0)>>
  /\ fwdSeed = << FinSeq(<<1, 0>>) >> /\ fwdSens = << <<Fin(7)>> >>
  /\ adjSeed = << <<Fin(1)>> >>
  /\ adjSens = << FinSeq(<<0, 0>>) >>
  /\ NoBits

\* a norm node over a vector of ints; a Norm2 node only over a vector whose
\* 2-norm is a double of the model
InitNorm ==
  \/ \E kd \in NormKinds : \E x \in SeqsUpTo(XVals, MaxNnz) :
       \E nfwd \in 0..MaxDir, nadj \in 0..MaxDir :
          /\ nfwd + nadj <= MaxDir
          /\ kd = "Norm2" => HasSqrt(SumSquares(FinSeq(x), 0, Fin(0)))
          /\ NormNode(kd, Len(x))
          /\ NormBuffers(x, nfwd, nadj)
          /\ NoBits
  \/ Scenario7
  \/ Scenario8

NextNorm ==
  \/ NormEvaluate \/ Norm2Evaluate \/ Norm22Evaluate \/ Norm1Evaluate
  \/ NormInfEvaluate \/ AdFwd

SpecNorm == InitNorm /\ [][NextNorm]_vars

(***************************************************************************)
(* Claims on the norm nodes (SpecNorm).                                    *)
(***************************************************************************)
\* m is the largest absolute value among the entries of x
IsMaxAbs(m, x) ==
  /\ \E k \in 1..Len(x) : m = DAbs(x[k])
  /\ \A k \in 1..Len(x) : ~DGt(DAbs(x[k]), m)

\* C4: after NormInf::evaluate with no adjoint directions, output[0] is
\* the largest absolute value among the dependency's nonzeros.
C4_NormInfValue ==
  (kind = "NormInf" /\ pc = "evaluated" /\ Len(adjSeed) = 0 /\ Len(idata) > 0)
    => IsMaxAbs(odata[1], idata)

\* the sum of |x_k| over a vector of doubles that hold ints
AbsSum(x) == Fin(SumOver(1..Len(x), [k \in 1..Len(x) |-> AbsInt(x[k].n)]))

\* C5: evaluating an L1-norm node produces the value sum_k |x_k| in the
\* output for every input and every number of forward and adjoint
\* directions; x=[-2,0,3] with one adjoint direction of seed 2 yields value
\* 5 and adjoint sensitivities [-2, NaN, 2].
C5_Norm1Value ==
  (kind = "Norm1" /\ pc = "evaluated") =>
    /\ odata[1] = AbsSum(idata)
    /\ (idata = FinSeq(<<-2, 0, 3>>) /\ Len(adjSeed) = 1) =>
         (odata[1] = Fin(5) /\ adjSens = << <<Fin(-2), NaN, Fin(2)>> >>)

\* C6: evaluating the infinity-norm node raises the fatal error whenever
\* the number of adjoint directions is greater than zero, and completes
\* without error when it is zero, for any number of forward directions and
\* any input.
C6_NormInfAdjointThrows ==
  (kind = "NormInf" /\ pc \in {"evaluated", "threw"}) =>
    IF Len(adjSeed) > 0
    THEN pc = "threw" /\ thrown = "NormInf::evaluate not implemented"
    ELSE pc = "evaluated" /\ thrown = "none"

\* the infinity norm has thrown on one adjoint direction beside a forward
\* direction
C6_Witness ==
  /\ kind = "NormInf"
  /\ pc = "threw"
  /\ Len(adjSeed) = 1
  /\ Len(fwdSens) = 1

\* C7: for the L2, squared-L2 and L1 norm nodes, an adjoint direction whose
\* incoming scalar seed is exactly zero leaves that direction's dependency
\* sensitivity buffer unmodified, for every input (including x with zero
\* elements) and whatever the seeds of the other directions.
C7_ZeroSeedNoOp ==
  [][(pc = "built" /\ pc' = "evaluated" /\ kind \in {"Norm2", "Norm22", "Norm1"}) =>
       /\ Len(adjSens') = Len(adjSens)
       /\ \A d \in 1..Len(adjSeed) :
            DIsZero(adjSeed[d][1]) => adjSens'[d] = adjSens[d]]_vars

\* an L1 node over an x with a zero element has run two adjoint
\* directions: the one with seed zero kept its accumulator, the other one
\* took a not-a-number
C7_Witness ==
  /\ kind = "Norm1"
  /\ pc = "evaluated"
  /\ \E k \in 1..Len(idata) : DIsZero(idata[k])
  /\ adjSeed = << <<Fin(0)>>, <<Fin(2)>> >>
  /\ adjSens[1] = FinSeq(Ramp(Len(idata)))
  /\ \E k \in 1..Len(idata) : IsNaN(adjSens[2][k])

\* C11: in the numeric forward pass of a gather, for every forward
\* direction d and output position i, fwdSens[d][i] = fwdSeed[d][nz[i]]
\* when nz[i] >= 0 and 0 when nz[i] is absent; the result overwrites the
\* sensitivity buffer and depends only on direction d's own seed.
C11_ForwardGather ==
  [][Evaluated =>
       /\ Len(fwdSens') = Len(fwdSens)
       /\ fwdSeed' = fwdSeed
       /\ \A d \in 1..Len(fwdSens) :
            /\ Len(fwdSens'[d]) = Len(nz_)
            /\ \A i \in 1..Len(nz_) :
                 fwdSens'[d][i] = IF nz_[i] >= 0 THEN fwdSeed[d][nz_[i] + 1] ELSE 0]_vars

\* two forward directions with different seeds have been gathered through
\* a mapping with an absent entry, over buffers that held the ramp
C11_Witness ==
  /\ pc = "evaluated"
  /\ nz_ = <<1, -1>>
  /\ fwdSeed = << <<0, 1>>, <<1, 0>> >>
  /\ fwdSens = << <<1, 0>>, <<0, 0>> >>

\* a norm node has been evaluated in this step
NormEvaluated(kd) == pc = "built" /\ pc' = "evaluated" /\ kind = kd

\* C12: for the L1-norm node, each adjoint direction with nonzero scalar
\* seed s adds to the dependency sensitivity entry k the value +s when
\* x_k > 0, -s when x_k < 0 and a not-a-number when x_k == 0 (the entry
\* becomes NaN whatever it held before); the addition accumulates onto the
\* buffer's previous content.
C12_Norm1Adjoint ==
  [][(NormEvaluated("Norm1") /\ Len(adjSeed) > 0) =>
       /\ Len(adjSens') = Len(adjSens)
       /\ \A d \in 1..Len(adjSeed) :
            LET s == adjSeed[d][1]
            IN ~DIsZero(s) =>
                 /\ Len(adjSens'[d]) = Len(idata)
                 /\ \A k \in 1..Len(idata) :
                      adjSens'[d][k] =
                        IF idata[k].n > 0 THEN DAdd(adjSens[d][k], s)
                        ELSE IF idata[k].n < 0 THEN DAdd(adjSens[d][k], DNeg(s))
                        ELSE NaN]_vars

\* an L1 node over x=[-4,3] has added the seed 2 onto the ramp [1,2]
C12_Witness ==
  /\ kind = "Norm1"
  /\ pc = "evaluated"
  /\ idata = FinSeq(<<-4, 3>>)
  /\ adjSeed = << <<Fin(2)>> >>
  /\ adjSens = << FinSeq(<<-1, 4>>) >>

\* the sum of a[k]*b[k] over two vectors of doubles that hold ints
Dot(a, b) == SumOver(1..Len(a), [k \in 1..Len(a) |-> a[k].n * b[k].n])

\* C14: for the squared-2-norm node over integer-valued inputs, the value
\* is sum_k x_k^2, each forward sensitivity d is sum_k 2*x_k*seed_d[k]
\* (overwriting the buffer), and each adjoint direction with nonzero seed s
\* adds 2*x_k*s to dependency sensitivity entry k on top of its previous
\* content, for every k and every direction.
C14_Norm22 ==
  [][NormEvaluated("Norm22") =>
       /\ odata' = <<Fin(Dot(idata, idata))>>
       /\ Len(fwdSens') = Len(fwdSens)
       /\ \A d \in 1..Len(fwdSens) :
            fwdSens'[d] = <<Fin(2 * Dot(idata, fwdSeed[d]))>>
       /\ Len(adjSens') = Len(adjSens)
       /\ \A d \in 1..Len(adjSeed) :
            LET s == adjSeed[d][1]
            IN ~DIsZero(s) =>
                 /\ Len(adjSens'[d]) = Len(idata)
                 /\ \A k \in 1..Len(idata) :
                      adjSens'[d][k] = DAdd(adjSens[d][k], Fin(2 * idata[k].n * s.n))]_vars

\* a squared-2-norm node over x=[-4,3] has run a forward direction of seed
\* [1,2] over a stale buffer and an adjoint direction of seed 2 on the ramp
C14_Witness ==
  /\ kind = "Norm22"
  /\ pc = "evaluated"
  /\ idata = FinSeq(<<-4, 3>>)
  /\ odata = <<Fin(25)>>
  /\ fwdSeed = << FinSeq(<<1, 2>>) >>
  /\ fwdSens = << <<Fin(4)>> >>
  /\ adjSeed = << <<Fin(2)>> >>
  /\ adjSens = << FinSeq(<<-15, 14>>) >>

\* the 2-norm of a vector of doubles that hold ints whose sum of squares is
\* a perfect square
Root(x) == IntSqrt(Dot(x, x))

\* C15: for the 2-norm node the value is sqrt(sum_k x_k^2), forward
\* sensitivity d is sum_k (x_k/value)*seed_d[k] and the adjoint (of a
\* nonzero seed s) adds (x_k/value)*s to entry k; on x=[3,4] this gives
\* value 5, forward sensitivity 3/5 for seed [1,0] and adjoint
\* sensitivities [3/5, 4/5] for adjoint seed 1 on a zero accumulator; and
\* L2Squared(x) equals L2(x)^2.  A quotient by the value zero is a
\* not-a-number.
C15_Norm2 ==
  [][NormEvaluated("Norm2") =>
       LET v == Root(idata)
           undefined == v = 0 /\ Len(idata) > 0
       IN /\ v * v = Dot(idata, idata)
          /\ odata' = <<Fin(v)>>
          /\ DMul(odata'[1], odata'[1]) = SumSquares(idata, 0, Fin(0))
          /\ Len(fwdSens') = Len(fwdSens)
          /\ \A d \in 1..Len(fwdSens) :
               fwdSens'[d] = << IF undefined THEN NaN
                                ELSE IF v = 0 THEN Fin(0)
                                ELSE Rat(Dot(idata, fwdSeed[d]), v) >>
          /\ Len(adjSens') = Len(adjSens)
          /\ \A d \in 1..Len(adjSeed) :
               LET s == adjSeed[d][1]
               IN ~DIsZero(s) =>
                    /\ Len(adjSens'[d]) = Len(idata)
                    /\ \A k \in 1..Len(idata) :
                         adjSens'[d][k] =
                           IF undefined THEN NaN
                           ELSE DAdd(adjSens[d][k], Rat(idata[k].n * s.n, v))
          /\ (idata = FinSeq(<<3, 4>>) /\ fwdSeed = << FinSeq(<<1, 0>>) >>
                /\ adjSeed = << <<Fin(1)>> >> /\ adjSens = << FinSeq(<<0, 0>>) >>)
               => /\ odata' = <<Fin(5)>>
                  /\ fwdSens' = << <<Rat(3, 5)>> >>
                  /\ adjSens' = << <<Rat(3, 5), Rat(4, 5)>> >>]_vars

\* the L2 node over x=[3,4] has been evaluated with the forward seed [1,0]
\* and the adjoint seed 1 on a zero accumulator
C15_Witness ==
  /\ kind = "Norm2"
  /\ pc = "evaluated"
  /\ idata = FinSeq(<<3, 4>>)
  /\ odata = <<Fin(5)>>
  /\ fwdSeed = << FinSeq(<<1, 0>>) >>
  /\ fwdSens = << <<Rat(3, 5)>> >>
  /\ adjSeed = << <<Fin(1)>> >>
  /\ adjSens = << <<Rat(3, 5), Rat(4, 5)>> >>

\* Norm::evaluate raises and writes nothing, in every step of a base node
\* that is not adFwd
BaseNormThrows ==
  /\ kind' = "Norm" => pc' # "evaluated"
  /\ (kind = "Norm" /\ pc = "built" /\ pc' # "derived") =>
       /\ pc' = "threw"
       /\ thrown' = "Norm::evaluate not implemented"
       /\ odata' = odata /\ fwdSens' = fwdSens
       /\ adjSeed' = adjSeed /\ adjSens' = adjSens

\* adFwd has returned on a node that inherits Norm::adFwd
FallbackDerived == kind' \in {"Norm", "Norm1", "NormInf"} /\ pc' = "derived"

MaxArg == 5

\* Slice(nz), for an affine nz: start, stop and step of the stride
SliceOf(nz) ==
  IF Len(nz) = 0 THEN [start_ |-> 0, stop_ |-> 0, step_ |-> 1]
  ELSE IF Len(nz) = 1 THEN [start_ |-> nz[1], stop_ |-> nz[1] + 1, step_ |-> 1]
  ELSE [start_ |-> nz[1], stop_ |-> nz[1] + (nz[2] - nz[1]) * Len(nz),
        step_ |-> nz[2] - nz[1]]

\* the mappings that are one affine stride over a dependency of n nonzeros
Strides(n) ==
  {nz \in {[k \in 1..c |-> a + (k - 1) * s] :
             a \in 0..(n - 1), s \in (-n..n) \ {0}, c \in 0..n} :
     \A k \in 1..Len(nz) : nz[k] \in 0..(n - 1)}

\* the loop emitted by line 287, ii - s<ind> = k:
\*   for(ii=s, rr=res, ss=arg; ii!=s+nz_.size(); ++ii) *rr++ = *ii>=0 ? ss[*ii] : 0;
RECURSIVE TableLoop(_, _, _, _)
TableLoop(nz, arg, k, res) ==
  IF k = Len(nz) THEN res
  ELSE TableLoop(nz, arg, k + 1,
         Append(res, IF nz[k + 1] >= 0 THEN arg[nz[k + 1] + 1] ELSE 0))

\* GetNonzeros::generateOperation: the index table is emitted as a constant
GenerateOperation ==
  /\ pc = "built" /\ kind = "GetNonzeros"
  /\ gen' = [loop |-> "table", start_ |-> 0, stop_ |-> 0, step_ |-> 1,
             ss |-> 0, res |-> <<>>]
  /\ pc' = "emitted"
  /\ UNCHANGED <<thrown, kind, sp, dsp, nz_, idata, odata, fwdSeed, fwdSens,
                 adjSeed, adjSens, ibits, obits, ex, nzArg, nzNew, ad, drv, mx>>

\* GetNonzerosSlice::generateOperation: start_, stop_ and step_ of the
\* member s_, which gen holds since construction, are printed into the loop
SliceGenerateOperation ==
  /\ pc = "built" /\ kind = "GetNonzerosSlice"
  /\ gen' = [loop |-> "slice", start_ |-> gen.start_, stop_ |-> gen.stop_,
             step_ |-> gen.step_, ss |-> 0, res |-> <<>>]
  /\ pc' = "emitted"
  /\ UNCHANGED <<thrown, kind, sp, dsp, nz_, idata, odata, fwdSeed, fwdSens,
                 adjSeed, adjSens, ibits, obits, ex, nzArg, nzNew, ad, drv, mx>>

\* the run of the table loop
RunTable ==
  /\ pc = "emitted" /\ gen.loop = "table"
  /\ gen' = [gen EXCEPT !.res = TableLoop(nz_, idata, 0, <<>>)]
  /\ pc' = "ran"
  /\ UNCHANGED <<thrown, kind, sp, dsp, nz_, idata, odata, fwdSeed, fwdSens,
                 adjSeed, adjSens, ibits, obits, ex, nzArg, nzNew, ad, drv, mx>>

\* the slice loop with ss++ in place of ss+=step_
SliceAdvanceOne(ss, step) == ss + 1

\* ss+=step_ of line 317
SliceAdvance(ss, step) == ss + step

\* the initialisation of the slice loop: rr=res, ss=arg+start_
SliceRunInit ==
  /\ pc = "emitted" /\ gen.loop = "slice"
  /\ gen' = [gen EXCEPT !.ss = gen.start_, !.res = <<>>]
  /\ pc' = "running"
  /\ UNCHANGED <<thrown, kind, sp, dsp, nz_, idata, odata, fwdSeed, fwdSens,
                 adjSeed, adjSens, ibits, obits, ex, nzArg, nzNew, ad, drv, mx>>

\* the slice loop with ss<arg+stop_ in place of ss!=arg+stop_
SliceContinueBelow(ss, stop) == ss < stop

\* the test ss!=arg+stop_ of line 317
SliceContinue(ss, stop) == ss # stop

\* one test of ss!=arg+stop_ and, when it holds, one *rr++ = *ss; ss+=step_.
\* A read outside arg or a write past the end of res is undefined: the
\* read returns garbage, or the process dies.
SliceRunStep ==
  /\ pc = "running" /\ gen.loop = "slice"
  /\ IF ~SliceContinue(gen.ss, gen.stop_)
     THEN pc' = "ran" /\ gen' = gen
     ELSE IF gen.ss \in 0..(Len(idata) - 1) /\ Len(gen.res) < Len(nz_)
     THEN /\ gen' = [gen EXCEPT !.res = Append(@, idata[gen.ss + 1]),
                                !.ss = SliceAdvance(@, gen.step_)]
          /\ pc' = pc
     ELSE \/ /\ Len(gen.res) < Len(nz_)
             /\ \E g \in Garbage :
                  gen' = [gen EXCEPT !.res = Append(@, g),
                                     !.ss = SliceAdvance(@, gen.step_)]
             /\ pc' = pc
          \/ pc' = "crashed" /\ gen' = gen
  /\ UNCHANGED <<thrown, kind, sp, dsp, nz_, idata, odata, fwdSeed, fwdSens,
                 adjSeed, adjSens, ibits, obits, ex, nzArg, nzNew, ad, drv, mx>>

\* a single-slice node whose member s_ is s: gen holds s_ from construction
\* on, and no loop is emitted yet
SliceNodeOf(p, dp, nz, s) ==
  /\ pc = "built"
  /\ thrown = "none"
  /\ kind = "GetNonzerosSlice"
  /\ sp = p
  /\ dsp = dp
  /\ nz_ = nz
  /\ ex = "node"
  /\ nzArg = <<>>
  /\ nzNew = <<>>
  /\ gen = [loop |-> "none", start_ |-> s.start_, stop_ |-> s.stop_,
            step_ |-> s.step_, ss |-> 0, res |-> <<>>]
  /\ ad = "none" /\ drv = "none" /\ mx = "none"

\* GetNonzerosSlice::GetNonzerosSlice(sp, x, nz): the base constructor, and
\* s_(Slice(nz))
SliceNode(p, dp, nz) == SliceNodeOf(p, dp, nz, SliceOf(nz))

\* a node of class kd
NodeOf(kd, p, dp, nz) ==
  IF kd = "GetNonzerosSlice" THEN SliceNode(p, dp, nz) ELSE Node(p, dp, nz)

\* the gather of testable property 6: nz = [2,4,6,8] over nine nonzeros
Scenario6(kd) ==
  /\ NodeOf(kd, DenseRow(4), DenseRow(9), <<2, 4, 6, 8>>)
  /\ idata = Ramp(9) /\ odata = Zeros(4)
  /\ fwdSeed = <<>> /\ fwdSens = <<>> /\ adjSeed = <<>> /\ adjSens = <<>>
  /\ NoBits

\* a single-slice node is built on an affine mapping into the dependency;
\* a generic node with any mapping into it
InitGen ==
  \/ \E n \in 0..MaxArg : \E kd \in {"GetNonzeros", "GetNonzerosSlice"} :
       \E nz \in (IF kd = "GetNonzerosSlice" THEN Strides(n)
                  ELSE Strides(n) \cup SeqsUpTo(-1..(n - 1), MaxOut)) :
          /\ NodeOf(kd, DenseRow(Len(nz)), DenseRow(n), nz)
          /\ idata \in {Ramp(n)} \cup SeqsOf(Vals, n)
          /\ odata = Zeros(Len(nz))
          /\ fwdSeed = <<>> /\ fwdSens = <<>> /\ adjSeed = <<>> /\ adjSens = <<>>
          /\ NoBits
  \/ \E kd \in {"GetNonzeros", "GetNonzerosSlice"} : Scenario6(kd)

NextGen ==
  \/ GenerateOperation \/ SliceGenerateOperation
  \/ RunTable \/ SliceRunInit \/ SliceRunStep

SpecGen == InitGen /\ [][NextGen]_vars

(***************************************************************************)
(* Claims on the generated code (SpecGen).                                 *)
(***************************************************************************)
\* C16: for a gather whose mapping is a single affine stride
\* nz[k] = start + k*step, k = 0..count-1 (e.g. [2,4,6,8]), the loop emitted
\* by the single-slice variant (read from arg+start, advance by step, stop
\* at arg+stop) writes exactly the same output values, in the same order
\* and the same number of them, as the generic index-table loop and as
\* numeric evaluation of the generic gather; it reads no entry outside arg.
C16_SliceLoopEqualsTable ==
  /\ (kind = "GetNonzerosSlice" /\ pc = "ran") =>
       /\ Len(gen.res) = Len(nz_)
       /\ gen.res = TableLoop(nz_, idata, 0, <<>>)
       /\ gen.res = GatherLoop(nz_, idata, Zeros(Len(nz_)), 0, 0)
  /\ (kind = "GetNonzerosSlice" /\ pc = "running") =>
       /\ Len(gen.res) <= Len(nz_)
       /\ \A k \in 1..Len(gen.res) : gen.res[k] = idata[nz_[k] + 1]
  /\ kind = "GetNonzerosSlice" => pc # "crashed"

\* the slice loop over nz = [2,4,6,8] has run and written arg[2], arg[4],
\* arg[6] and arg[8]
C16_Witness ==
  /\ kind = "GetNonzerosSlice"
  /\ pc = "ran"
  /\ nz_ = <<2, 4, 6, 8>>
  /\ gen.start_ = 2 /\ gen.stop_ = 10 /\ gen.step_ = 2
  /\ gen.res = <<3, 5, 7, 9>>

(***************************************************************************)
(* The emitted slice loop as a function of the member s_ (SpecLoop).  No   *)
(* source under src/ computes s_ from nz, and generateOperation prints     *)
(* whatever s_ holds: here s_ is any start, stop and step near the data.   *)
(***************************************************************************)
\* largest magnitude of the step of s_
MaxStep == 2

\* the values of s_ the loop is run on, over a dependency of n nonzeros
SliceParams(n) ==
  [start_ : -1..n, stop_ : (0 - MaxStep)..(n + MaxStep),
   step_ : (0 - MaxStep)..MaxStep]

\* the mapping that gathers the first c nonzeros
First(c) == [k \in 1..c |-> k - 1]

\* nz decides only the size of res here: one mapping of every length
InitLoop ==
  \E n \in 0..MaxArg : \E c \in 0..n : \E s \in SliceParams(n) :
   LET nz == First(c) IN
    /\ SliceNodeOf(DenseRow(Len(nz)), DenseRow(n), nz, s)
    /\ idata = Ramp(n)
    /\ odata = Zeros(Len(nz))
    /\ fwdSeed = <<>> /\ fwdSens = <<>> /\ adjSeed = <<>> /\ adjSens = <<>>
    /\ NoBits

NextLoop == SliceGenerateOperation \/ SliceRunInit \/ SliceRunStep

\* the generated function runs to its end once called: no step of the loop
\* waits on anything
SpecLoop == InitLoop /\ [][NextLoop]_vars /\ WF_vars(NextLoop)

\* the counts c >= 0 with stop_ = start_ + c*step_
Counts ==
  {c \in 0..(MaxArg + MaxStep + 1) : gen.stop_ = gen.start_ + c * gen.step_}

\* the loop is reading outside arg, or has filled res
InvalidAccess ==
  \/ gen.ss \notin 0..(Len(idata) - 1)
  \/ Len(gen.res) >= Len(nz_)

\* the count reads of a slice with stop_ = start_ + count*step_ all lie in
\* arg, and res holds count entries
ValidRun ==
  /\ gen.step_ # 0
  /\ \E c \in Counts :
       /\ c <= Len(nz_)
       /\ \A k \in 0..(c - 1) :
            gen.start_ + k * gen.step_ \in 0..(Len(idata) - 1)

\* what holds of the loop at every moment of its run
LoopControl ==
  (kind = "GetNonzerosSlice" /\ pc \in {"running", "ran", "crashed"}) =>
    /\ gen.ss = gen.start_ + Len(gen.res) * gen.step_
    /\ \A c \in Counts : gen.step_ # 0 =>
         /\ Len(gen.res) <= c
         /\ pc = "ran" => Len(gen.res) = c
         /\ pc = "crashed" => Len(gen.res) < c
    /\ Counts = {} => pc # "ran"
    /\ pc = "crashed" => InvalidAccess

\* C21: the loop emitted for a single-slice gather advances the source
\* pointer from arg+start by step and stops only when it equals arg+stop.
\* When stop = start + count*step with count >= 0 and step # 0 it leaves
\* the loop after exactly count iterations, never earlier or later; when
\* stop - start is not a non-negative multiple of step it never leaves the
\* loop, and the run ends only by an access outside the data.  The number
\* of iterations done is Len(gen.res); a run whose accesses are all inside
\* the data does leave the loop.
C21_SliceLoopTermination ==
  /\ []LoopControl
  /\ (pc = "running" /\ ValidRun) ~> (pc = "ran")

\* start 0, stop 3, step 2: the pointer has stepped over arg+3 and the run
\* has ended outside the data after at least two reads
C21_Witness ==
  /\ kind = "GetNonzerosSlice"
  /\ gen.start_ = 0 /\ gen.stop_ = 3 /\ gen.step_ = 2
  /\ Counts = {}
  /\ Len(gen.res) >= 2
  /\ gen.ss > gen.stop_
  /\ pc = "crashed"

(***************************************************************************)
(* The reverse pass over several parents of one dependency.  Every parent  *)
(* is a gather on the same dependency and runs the adjoint loop of         *)
(* evaluateGen on the dependency's one accumulator, drv.acc; drv.par[p] is  *)
(* parent p: its mapping nz, its adjoint seed, the position k of its loop, *)
(* and the value tmp it has read for the addition in progress.             *)
(***************************************************************************)
\* largest number of parents of the dependency
MaxParents == 2

\* the seed of parent p: every entry of every parent is another power of 2
ParentSeed(p, len) == [k \in 1..len |-> 2 ^ ((p - 1) * MaxOut + (k - 1))]

\* parent p before its pass
Parent(p, nz) ==
  [nz |-> nz, seed0 |-> ParentSeed(p, Len(nz)), seed |-> ParentSeed(p, Len(nz)),
   k |-> 0, tmp |-> 0, phase |-> "load"]

ParentDone(q) == q.k = Len(q.nz)

AllDone == \A p \in 1..Len(drv.par) : ParentDone(drv.par[p])

\* the entries lens[1] + ... + lens[p-1] + 1 .. lens[1] + ... + lens[p]
\* of flat
Piece(flat, lens, p) ==
  LET off == SumOver(1..(p - 1), lens)
  IN SubSeq(flat, off + 1, off + lens[p])

\* the driver's discipline, the parents and the accumulator they share; the
\* parents' mappings have MaxOut + 1 entries or fewer between them
InitDrv ==
  /\ pc = "built" /\ thrown = "none" /\ kind = "GetNonzeros" /\ ex = "node"
  /\ \E n \in 1..MaxNnz : \E np \in 1..MaxParents :
       \E lens \in [1..np -> 1..MaxOut] :
         /\ SumOver(1..np, lens) <= MaxOut + 1
         /\ \E flat \in SeqsOf(-1..(n - 1), SumOver(1..np, lens)) :
              /\ sp = DenseRow(n) /\ dsp = DenseRow(n)
              /\ \E mode \in {"serialized", "interleaved"} :
                   drv = [mode |-> mode, init |-> Ramp(n), acc |-> Ramp(n),
                          par |-> [p \in 1..np |-> Parent(p, Piece(flat, lens, p))]]
  /\ nz_ = <<>> /\ idata = <<>> /\ odata = <<>>
  /\ fwdSeed = <<>> /\ fwdSens = <<>> /\ adjSeed = <<>> /\ adjSens = <<>>
  /\ nzArg = <<>> /\ nzNew = <<>>
  /\ NoBits
  /\ ad = "none" /\ gen = "none" /\ mx = "none"

\* pc after a step that leaves the parents par
AfterPass(par) ==
  IF \A p \in 1..Len(par) : ParentDone(par[p]) THEN "reversed" ELSE "built"

\* a serializing driver runs the whole adjoint loop of one parent that has
\* not run yet, in any order of the parents
SerialPass ==
  /\ pc = "built" /\ drv.mode = "serialized"
  /\ \E p \in 1..Len(drv.par) :
       /\ ~ParentDone(drv.par[p])
       /\ LET q == drv.par[p]
              r == AdjointLoop(q.nz, q.seed, drv.acc, 0)
              par1 == [drv.par EXCEPT ![p] = [q EXCEPT !.seed = r[1], !.k = Len(q.nz)]]
          IN /\ drv' = [drv EXCEPT !.acc = r[2], !.par = par1]
             /\ pc' = AfterPass(par1)
  /\ UNCHANGED <<thrown, kind, sp, dsp, nz_, idata, odata, fwdSeed, fwdSens,
                 adjSeed, adjSens, ibits, obits, ex, nzArg, nzNew, ad, gen, mx>>

\* without serialization, the first half of asens[*k] += *aseed_it of one
\* parent: the test *k>=0 and the read of asens[*k]; an absent entry only
\* clears its seed (line 77)
RmwLoad ==
  /\ pc = "built" /\ drv.mode = "interleaved"
  /\ \E p \in 1..Len(drv.par) :
       LET q == drv.par[p]
           j == q.nz[q.k + 1]
           q1 == IF j >= 0
                 THEN [q EXCEPT !.tmp = drv.acc[j + 1], !.phase = "store"]
                 ELSE [q EXCEPT !.seed[q.k + 1] = 0, !.k = @ + 1]
           par1 == [drv.par EXCEPT ![p] = q1]
       IN /\ ~ParentDone(q) /\ q.phase = "load"
          /\ drv' = [drv EXCEPT !.par = par1]
          /\ pc' = AfterPass(par1)
  /\ UNCHANGED <<thrown, kind, sp, dsp, nz_, idata, odata, fwdSeed, fwdSens,
                 adjSeed, adjSens, ibits, obits, ex, nzArg, nzNew, ad, gen, mx>>

\* the second half: the sum is written back, and *aseed_it++ = 0
RmwStore ==
  /\ pc = "built" /\ drv.mode = "interleaved"
  /\ \E p \in 1..Len(drv.par) :
       LET q == drv.par[p]
           j == q.nz[q.k + 1]
           q1 == [q EXCEPT !.seed[q.k + 1] = 0, !.k = @ + 1, !.phase = "load"]
           par1 == [drv.par EXCEPT ![p] = q1]
       IN /\ ~ParentDone(q) /\ q.phase = "store"
          /\ drv' = [drv EXCEPT !.acc[j + 1] = q.tmp + q.seed[q.k + 1],
                                !.par = par1]
          /\ pc' = AfterPass(par1)
  /\ UNCHANGED <<thrown, kind, sp, dsp, nz_, idata, odata, fwdSeed, fwdSens,
                 adjSeed, adjSens, ibits, obits, ex, nzArg, nzNew, ad, gen, mx>>

NextDrv == SerialPass \/ RmwLoad \/ RmwStore

SpecDrv == InitDrv /\ [][NextDrv]_vars

(***************************************************************************)
(* Claims on the reverse pass over several parents (SpecDrv).              *)
(***************************************************************************)
\* the entries of the parents in P that map to position j of the dependency
EntriesOn(P, j) ==
  {e \in UNION {{<<p, k>> : k \in 1..Len(drv.par[p].nz)} : p \in P} :
     drv.par[e[1]].nz[e[2]] = j}

\* the sum of the seeds the parents in P contribute to position j
Contribution(P, j) ==
  LET E == EntriesOn(P, j)
  IN SumOver(E, [e \in E |-> drv.par[e[1]].seed0[e[2]]])

\* C17: when several parent gather nodes add adjoint contributions into
\* the same dependency's sensitivity buffer during one reverse pass,
\* serialized execution of the parents' passes gives, in every order, a
\* final buffer equal to the initial buffer plus the sum of all parents'
\* contributions (and after each pass, plus those of the parents that have
\* run); interleaved read-modify-write additions can lose a contribution,
\* the state C17_LostContribution.
C17_SerializedSum ==
  drv.mode = "serialized" =>
    LET ran == {p \in 1..Len(drv.par) : ParentDone(drv.par[p])}
    IN /\ \A j \in 0..(Len(drv.acc) - 1) :
            drv.acc[j + 1] = drv.init[j + 1] + Contribution(ran, j)
       /\ pc = "reversed" <=> ran = 1..Len(drv.par)
       /\ \A p \in ran : \A k \in 1..Len(drv.par[p].seed) : drv.par[p].seed[k] = 0

\* two parents have interleaved their additions on position 0 and the pass
\* has finished with the contribution of one of them missing
C17_LostContribution ==
  /\ drv.mode = "interleaved"
  /\ pc = "reversed"
  /\ Len(drv.par) = 2
  /\ drv.par[1].nz = <<0>> /\ drv.par[2].nz = <<0>>
  /\ drv.acc[1] < drv.init[1] + Contribution({1, 2}, 0)
  /\ drv.acc[1] \in {drv.init[1] + Contribution({1}, 0),
                     drv.init[1] + Contribution({2}, 0)}

(***************************************************************************)
(* GetNonzeros::evaluateMX.  A symbolic matrix is known by its sparsity    *)
(* pattern; the nonzeros of a pattern are numbered in row-major order and  *)
(* an element (row, col) of a matrix with size1 rows has the number        *)
(* row + col*size1.                                                        *)
(***************************************************************************)
\* the nonzeros of p in row-major order, as (row, col) pairs
RowMajor(p) ==
  LET key(e) == e[1] * p.size2 + e[2]
  IN [i \in 1..Nnz(p) |->
        CHOOSE e \in p.elems :
          Cardinality({f \in p.elems : key(f) < key(e)}) = i - 1]

\* CRSSparsity::col(): the column of every nonzero
Col(p) == [k \in 1..Nnz(p) |-> RowMajor(p)[k][2]]

\* CRSSparsity::getRow(): the row of every nonzero
GetRow(p) == [k \in 1..Nnz(p) |-> RowMajor(p)[k][1]]

\* CRSSparsity::getElements(loc, false): the element number of every nonzero
GetElements(p) ==
  [k \in 1..Nnz(p) |-> RowMajor(p)[k][1] + RowMajor(p)[k][2] * p.size1]

\* the number of the nonzero of p at (r, c), or -1
NzAt(p, r, c) ==
  IF <<r, c>> \in p.elems
  THEN (CHOOSE k \in 1..Nnz(p) : RowMajor(p)[k] = <<r, c>>) - 1
  ELSE -1

\* CRSSparsity::getNZInplace(indices): every element number becomes the
\* number of the nonzero of p at that element, or -1
GetNZInplace(p, indices) ==
  [i \in 1..Len(indices) |->
     IF indices[i] < 0 \/ p.size1 = 0 THEN -1
     ELSE NzAt(p, indices[i] % p.size1, indices[i] \div p.size1)]

\* the loop of lines 125-128 over the entries of nz from k on:
\*   inz_count[*it+1]++
RECURSIVE InzCount(_, _, _)
InzCount(nz, k, count) ==
  IF k = Len(nz) THEN count
  ELSE InzCount(nz, k + 1, [count EXCEPT ![nz[k + 1] + 2] = @ + 1])

\* the loop of lines 131-133 from i on: inz_count[i+1] += inz_count[i]
RECURSIVE CumSum(_, _, _)
CumSum(count, i, n) ==
  IF i = n THEN count
  ELSE CumSum([count EXCEPT ![i + 2] = @ + count[i + 1]], i + 1, n)

\* the loop of lines 137-140 from k on: nz_order[inz_count[nz_[k]]++] = k
RECURSIVE NzOrderLoop(_, _, _, _)
NzOrderLoop(nz, k, count, order) ==
  IF k = Len(nz) THEN order
  ELSE NzOrderLoop(nz, k + 1,
         [count EXCEPT ![nz[k + 1] + 1] = @ + 1],
         [order EXCEPT ![count[nz[k + 1] + 1] + 1] = k])

\* lines 124-140: the output nonzeros sorted by the input nonzero they read
NzOrder(nz, isp) ==
  LET n == Nnz(isp)
      count == CumSum(InzCount(nz, 0, [i \in 1..(n + 1) |-> 0]), 0, n)
  IN NzOrderLoop(nz, 0, count, [k \in 1..Len(nz) |-> 0])

\* lines 143-151: the element of the input that every entry reads, in the
\* order nz_order
ElInput(nz, isp) ==
  LET order == NzOrder(nz, isp)
  IN [k \in 1..Len(nz) |->
        LET inz_k == nz[order[k] + 1]
        IN GetRow(isp)[inz_k + 1] + Col(isp)[inz_k + 1] * isp.size1]

\* the loop of lines 176-182 from k on; r_nz0 is the vector getNZInplace
\* left, and nzs, cols and count are r_nz[0..n-1], r_col and r_rowind:
\*   if(r_nz[k]!=-1){ r_nz[n++] = r_nz[k]; r_col.push_back(ocol[nz_order[k]]);
\*                    r_rowind[1+orow[nz_order[k]]]++; }
RECURSIVE ForwardKeep(_, _, _, _, _, _, _)
ForwardKeep(r_nz0, order, ocol, orow, k, acc, count) ==
  IF k = Len(r_nz0) THEN [nzs |-> acc.nzs, cols |-> acc.cols, count |-> count]
  ELSE IF r_nz0[k + 1] # -1
  THEN ForwardKeep(r_nz0, order, ocol, orow, k + 1,
         [nzs |-> Append(acc.nzs, r_nz0[k + 1]),
          cols |-> Append(acc.cols, ocol[order[k + 1] + 1])],
         [count EXCEPT ![orow[order[k + 1] + 1] + 2] = @ + 1])
  ELSE ForwardKeep(r_nz0, order, ocol, orow, k + 1, acc, count)

\* the result no call has assigned
Unset ==
  [op |-> "unset", nz |-> <<>>,
   sp |-> [size1 |-> 0, size2 |-> 0, col |-> <<>>, rowind |-> <<0>>]]

\* lines 162-190 for one argument of pattern argsp: the vectors r_col and
\* r_rowind handed to CRSSparsity(size1, size2, r_col, r_rowind), and
\* MX::zeros(f_sp) or arg->getGetNonzeros(f_sp, r_nz)
ForwardResult(nz, osp, isp, argsp) ==
  LET r == ForwardKeep(GetNZInplace(argsp, ElInput(nz, isp)), NzOrder(nz, isp),
                       Col(osp), GetRow(osp), 0, [nzs |-> <<>>, cols |-> <<>>],
                       [i \in 1..(osp.size1 + 1) |-> 0])
      f_sp == [size1 |-> osp.size1, size2 |-> osp.size2, col |-> r.cols,
               rowind |-> CumSum(r.count, 0, osp.size1)]
  IN [op |-> IF Len(r.nzs) = 0 THEN "zeros" ELSE "getGetNonzeros",
      nz |-> r.nzs, sp |-> f_sp]

\* MX(): the empty 0-by-0 matrix
EmptyMX == Pattern(0, 0, {})

\* CRSSparsity::patternUnion
PatternUnion(a, b) == Pattern(a.size1, a.size2, a.elems \cup b.elems)

\* an accumulator that no call has added to
Given(p) ==
  [op |-> "given", sp |-> p, nz |-> <<>>, seed |-> EmptyMX, onto |-> "asens0"]

\* the adjoint target without the enlargement of lines 237-250
AdjointTargetNoGrow(nz, isp, sens0, r_nz) ==
  LET r_nz2 == GetNZInplace(sens0, GetElements(isp))
  IN [sp |-> sens0,
      onto |-> "asens0",
      nz |-> [k \in 1..Len(r_nz) |->
                IF r_nz[k] >= 0 THEN r_nz2[nz[r_nz[k] + 1] + 1] ELSE r_nz[k]]]

\* lines 231-257 for a seed whose nonzeros are at the output nonzeros r_nz
\* (-1: at none): the accumulator's pattern, enlarged by
\* asens0->getDensification(sp) when an addition does not fit, and the
\* seed's nonzeros as locations in it
AdjointTarget(nz, isp, sens0, r_nz) ==
  LET el_input == GetElements(isp)
      r_nz2 == GetNZInplace(sens0, el_input)
      grow == \E k \in 1..Len(r_nz) : r_nz[k] >= 0 /\ r_nz2[nz[r_nz[k] + 1] + 1] < 0
      sens1 == IF grow THEN PatternUnion(sens0, isp) ELSE sens0
      r_nz3 == IF grow THEN GetNZInplace(sens1, el_input) ELSE r_nz2
  IN [sp |-> sens1,
      onto |-> IF grow THEN "getDensification" ELSE "asens0",
      nz |-> [k \in 1..Len(r_nz) |->
                IF r_nz[k] >= 0 THEN r_nz3[nz[r_nz[k] + 1] + 1] ELSE r_nz[k]]]

\* lines 212-225 for one seed: the output nonzero of every seed nonzero
\* (-1: none, or one whose entry of nz is absent)
SeedNonzeros(nz, osp, aseed) ==
  LET r_nz == GetNZInplace(osp, GetElements(aseed))
  IN [k \in 1..Len(r_nz) |->
        IF r_nz[k] >= 0 /\ nz[r_nz[k] + 1] < 0 THEN -1 ELSE r_nz[k]]

\* lines 203-260 for one direction: the sensitivity after the addition; it
\* is left alone when the seed has no element to add (line 228)
AdjointResult(nz, osp, isp, aseed, asens0) ==
  LET r_nz == SeedNonzeros(nz, osp, aseed)
      elements_to_add == \E k \in 1..Len(r_nz) : r_nz[k] >= 0
      t == AdjointTarget(nz, isp, asens0.sp, r_nz)
  IN IF ~elements_to_add THEN asens0
     ELSE [op |-> "getAddNonzeros", sp |-> t.sp, nz |-> t.nz, seed |-> aseed,
           onto |-> t.onto]

\* the test of line 126 on the first entry of nz_ only
HasAbsentFirst(nz) == Len(nz) > 0 /\ nz[1] < 0

\* the loop of lines 125-128 meets an entry that fails *it>=0
HasAbsent(nz) == \E i \in 1..Len(nz) : nz[i] < 0

\* GetNonzeros::evaluateMX: the assertion of line 126 fails on the first
\* absent entry of nz_, before anything is assigned; otherwise the output
\* (unless it is given) and the forward sensitivities are assigned, the
\* adjoint seeds are cleared and the adjoint sensitivities are added to
EvaluateMX ==
  /\ pc = "built" /\ kind = "GetNonzeros"
  /\ IF HasAbsent(nz_)
     THEN /\ pc' = "threw"
          /\ thrown' = "Not implemented"
          /\ mx' = mx
     ELSE /\ pc' = "evaluated"
          /\ thrown' = thrown
          /\ mx' = [mx EXCEPT
               !.output = IF mx.output_given THEN @
                          ELSE ForwardResult(nz_, sp, dsp, mx.input),
               !.fsens = [d \in 1..Len(mx.fseed) |->
                            ForwardResult(nz_, sp, dsp, mx.fseed[d])],
               !.aseed = [d \in 1..Len(mx.aseed) |-> EmptyMX],
               !.asens = [d \in 1..Len(mx.aseed) |->
                            AdjointResult(nz_, sp, dsp, mx.aseed[d], mx.asens[d])]]
  /\ UNCHANGED <<kind, sp, dsp, nz_, idata, odata, fwdSeed, fwdSens, adjSeed,
                 adjSens, ibits, obits, ex, nzArg, nzNew, ad, gen, drv>>

\* the patterns of the shape of p whose nonzeros are nonzeros of p
SubPatterns(p) == {Pattern(p.size1, p.size2, e) : e \in SUBSET p.elems}

\* the dense pattern of the shape of p
DenseLike(p) ==
  Pattern(p.size1, p.size2, (0..(p.size1 - 1)) \X (0..(p.size2 - 1)))

\* a node between two patterns with one entry of nz per output nonzero, the
\* symbolic input of the dependency's pattern, and at most one direction:
\* a forward seed or an accumulator on nonzeros of the dependency, an
\* adjoint seed on nonzeros of the output or dense; the output is given
\* only to calls without adjoint directions
InitMX ==
  /\ pc = "built" /\ thrown = "none" /\ kind = "GetNonzeros" /\ ex = "node"
  /\ \E p \in PatternsUpTo(MaxOut), dp \in PatternsUpTo(MaxNnz) :
       \E nz \in SeqsOf(-1..(Nnz(dp) - 1), Nnz(p)) :
         /\ sp = p /\ dsp = dp /\ nz_ = nz
         /\ \E given \in BOOLEAN, nfwd \in 0..1, nadj \in 0..1 :
              /\ nfwd + nadj <= 1
              /\ given => nadj = 0
              /\ \E fs \in SeqsOf(SubPatterns(dp), nfwd),
                    as \in SeqsOf(SubPatterns(p) \cup {DenseLike(p)}, nadj),
                    a0 \in SeqsOf(SubPatterns(dp), nadj) :
                   mx = [output_given |-> given, input |-> dp, output |-> Unset,
                         fseed |-> fs, fsens |-> [d \in 1..nfwd |-> Unset],
                         aseed |-> as, asens |-> [d \in 1..nadj |-> Given(a0[d])]]
  /\ idata = <<>> /\ odata = <<>>
  /\ fwdSeed = <<>> /\ fwdSens = <<>> /\ adjSeed = <<>> /\ adjSens = <<>>
  /\ nzArg = <<>> /\ nzNew = <<>>
  /\ NoBits
  /\ ad = "none" /\ gen = "none" /\ drv = "none"

NextMX == EvaluateMX

SpecMX == InitMX /\ [][NextMX]_vars

(***************************************************************************)
(* Claims on evaluateMX (SpecMX).                                          *)
(***************************************************************************)
\* C20: symbolic evaluation of a gather whose mapping nz contains any
\* absent (negative) entry fails with the fatal "Not implemented" assertion
\* before any output, forward sensitivity or adjoint sensitivity is assigned
\* and before any adjoint seed is cleared; with all entries present it never
\* raises that assertion.
C20_AbsentNotImplemented ==
  [][pc = "built" =>
       IF \E i \in 1..Len(nz_) : nz_[i] = -1
       THEN pc' = "threw" /\ thrown' = "Not implemented" /\ mx' = mx
       ELSE pc' = "evaluated" /\ thrown' = "none"
            /\ \A d \in 1..Len(mx.aseed) : mx'.aseed[d] = EmptyMX]_vars

\* the assertion has failed on a mapping whose first entry is present, with
\* the output unassigned and the adjoint seed still in place
C20_Witness ==
  /\ pc = "threw"
  /\ thrown = "Not implemented"
  /\ nz_ = <<0, -1>>
  /\ mx.output = Unset
  /\ Len(mx.aseed) = 1
  /\ Nnz(mx.aseed[1]) = 2
  /\ mx.asens[1].op = "given"

\* the row of nonzero t (from 1) of the pattern built from the vectors of f
RowOf(f, t) ==
  CHOOSE r \in 0..(f.size1 - 1) : f.rowind[r + 1] <= t - 1 /\ t - 1 < f.rowind[r + 2]

\* the nonzero of the argument of pattern argsp that output nonzero k (from
\* 1) reads, or -1 when the argument has no such element
SourceOf(k, argsp) ==
  LET e == RowMajor(dsp)[nz_[k] + 1]
  IN NzAt(argsp, e[1], e[2])

\* res is the gather nz_ applied to an argument of pattern argsp: its
\* nonzeros are the output nonzeros whose source is in the argument, in the
\* row-major order of the output pattern, each with its column, its row and
\* the argument's nonzero it reads
SameGather(res, argsp) ==
  LET present == {k \in 1..Len(nz_) : SourceOf(k, argsp) >= 0}
      kth(t) == CHOOSE k \in present :
                  Cardinality({j \in present : j < k}) = t - 1
  IN /\ Len(res.nz) = Cardinality(present)
     /\ Len(res.sp.col) = Cardinality(present)
     /\ res.sp.size1 = sp.size1 /\ res.sp.size2 = sp.size2
     /\ res.sp.rowind[sp.size1 + 1] = Cardinality(present)
     /\ res.op = IF present = {} THEN "zeros" ELSE "getGetNonzeros"
     /\ \A t \in 1..Cardinality(present) :
          /\ res.sp.col[t] = Col(sp)[kth(t)]
          /\ RowOf(res.sp, t) = GetRow(sp)[kth(t)]
          /\ res.nz[t] = SourceOf(kth(t), argsp)

\* C19: in symbolic evaluation of a gather with all nz entries present, for
\* the nondifferentiated output and every forward direction, the result is
\* the same gather applied to the argument for every mapping nz, also when
\* nz is not increasing or contains duplicates: the column list and nonzero
\* mapping handed to the constructed result pattern are in the row-major
\* order of the output pattern, so that the t-th mapping entry belongs to
\* the t-th nonzero of the result pattern, and output positions whose
\* source element is structurally absent from the argument are left out.
C19_ForwardSameGather ==
  pc = "evaluated" =>
    /\ ~mx.output_given => SameGather(mx.output, mx.input)
    /\ \A d \in 1..Len(mx.fseed) : SameGather(mx.fsens[d], mx.fseed[d])

\* the position in the dependency that the seed element at (r, c) adds to,
\* as a one-element set; empty when the output has no nonzero there
TargetOf(r, c) ==
  IF <<r, c>> \in sp.elems
  THEN {RowMajor(dsp)[nz_[NzAt(sp, r, c) + 1] + 1]}
  ELSE {}

\* C13: in symbolic adjoint propagation of a gather, whenever an adjoint
\* seed entry maps to a dependency position that is not in the current
\* accumulator's sparsity pattern, the accumulator is first enlarged to the
\* union of its current pattern and the dependency's full pattern, so that
\* after the re-mapping every seed entry with a present source index has a
\* valid (non-negative) target index in the accumulator, the number of the
\* accumulator's nonzero at the position it adds to, and no contribution is
\* dropped; when every target already fits, the accumulator's pattern is
\* not enlarged.
C13_DensifyOnDemand ==
  [][(pc = "built" /\ pc' = "evaluated") =>
       \A d \in 1..Len(mx.aseed) :
         LET seed == mx.aseed[d]
             old == mx.asens[d]
             new == mx'.asens[d]
             at(t) == RowMajor(seed)[t]
             target(t) == TargetOf(at(t)[1], at(t)[2])
             adding == {t \in 1..Nnz(seed) : target(t) # {}}
             fits == \A t \in adding : target(t) \subseteq old.sp.elems
         IN IF adding = {} THEN new = old
            ELSE /\ new.op = "getAddNonzeros" /\ new.seed = seed
                 /\ new.sp = IF fits THEN old.sp ELSE PatternUnion(old.sp, dsp)
                 /\ new.onto = IF fits THEN "asens0" ELSE "getDensification"
                 /\ Len(new.nz) = Nnz(seed)
                 /\ \A t \in 1..Nnz(seed) :
                      IF t \in adding
                      THEN /\ new.nz[t] >= 0
                           /\ target(t) = {RowMajor(new.sp)[new.nz[t] + 1]}
                      ELSE new.nz[t] = -1]_vars

\* a seed on both nonzeros of the output has been added to an accumulator
\* that held one of the two positions of the dependency: the accumulator
\* has been densified to both, and both seed entries have a target in it
C13_Witness ==
  /\ pc = "evaluated"
  /\ Nnz(sp) = 2 /\ Nnz(dsp) = 2
  /\ nz_ = <<1, 0>>
  /\ Len(mx.asens) = 1
  /\ mx.asens[1].op = "getAddNonzeros"
  /\ mx.asens[1].onto = "getDensification"
  /\ mx.asens[1].sp = dsp
  /\ mx.asens[1].nz = <<1, 0>>
  /\ Nnz(mx.asens[1].seed) = 2

====
